---- MODULE Spec2Model ----
(***************************************************************************)
(* bgp-radar: the ingestion and detection pipeline as a state machine.     *)
(*                                                                         *)
(*   stream clients -> update queue -> detector workers -> event queue     *)
(*        -> event sink -> relational writer                               *)
(*                                                                         *)
(* Every goroutine of the program is a process with a program counter;     *)
(* every channel is a bounded sequence plus a closed flag.  A send on a    *)
(* closed channel and a second close of a channel are Go runtime panics    *)
(* and are recorded in the variable panic, after which nothing runs.       *)
(***************************************************************************)
EXTENDS Integers, Sequences, FiniteSets, TLC

(***************************************************************************)
(* Bounds of the model (not program constants).                            *)
(***************************************************************************)
\* capacity of the update queue (flag -buffer)
BufferSize == 1
\* capacity of the event queue (10000 in the program)
EventsCap == 1
\* capacity of the writer's queue (queueSize, 10000 in the program)
WriterQueueCap == 1
\* size of a full batch (batchSize, 50 in the program)
BatchCap == 2
\* number of text frames the collectors deliver in one run
MaxFrames == 2
\* the same, in the runs that exercise the hijack detector
MaxHijackFrames == 3
\* how often one client's back-off timer fires in one run
MaxTimers == 1
\* how many events are handed to the writer in the runs of the writer alone
MaxWrites == 3
\* how often Start is called on one client in one run
MaxStarts == 2
\* how many rows a CSV file of the file resolver has at most
MaxRows == 2

(***************************************************************************)
(* Program constants.                                                      *)
(***************************************************************************)
\* initialReconnectDelay, in seconds
initialReconnectDelay == 5
\* maxReconnectDelay, in seconds
maxReconnectDelay == 300
\* reconnectBackoff
reconnectBackoff == 2

Workers == {"w1", "w2"}

(***************************************************************************)
(* Reference tables (the members the model's inputs use).                  *)
(***************************************************************************)
Tier1ASNs == {174, 3356, 6939, 7018}
ScrubbingASNs == {13335, 32787}
KnownBlackholeCommunities == {"65535:666", "3356:9999", "1299:999"}

IsTier1(asn) == asn \in Tier1ASNs
IsScrubbing(asn) == asn \in ScrubbingASNs
IsBlackholeCommunity(c) == c \in KnownBlackholeCommunities
HasBlackholeCommunity(communities) ==
    \E i \in 1..Len(communities) : IsBlackholeCommunity(communities[i])
HasScrubbingOrigin(asPath) ==
    asPath # <<>> /\ IsScrubbing(asPath[Len(asPath)])
HasScrubbingCenter(asPath) ==
    \E i \in 1..Len(asPath) : IsScrubbing(asPath[i])
GetBlackholeCommunities(communities) ==
    SelectSeq(communities, IsBlackholeCommunity)

(***************************************************************************)
(* Prefixes are text: a sequence of characters, as the detectors read it.  *)
(***************************************************************************)
Digits == [c \in {"0","1","2","3","4","5","6","7","8","9"} |->
            CASE c = "0" -> 0 [] c = "1" -> 1 [] c = "2" -> 2 [] c = "3" -> 3
              [] c = "4" -> 4 [] c = "5" -> 5 [] c = "6" -> 6 [] c = "7" -> 7
              [] c = "8" -> 8 [] c = "9" -> 9]

\* int(prefix[j] - '0') of a byte that is a digit
DigitValue(ch) == IF ch \in DOMAIN Digits THEN Digits[ch] ELSE 0

RECURSIVE ParseLength(_, _, _)
ParseLength(prefix, j, length) ==
    IF j > Len(prefix) THEN length
    ELSE ParseLength(prefix, j + 1, length * 10 + DigitValue(prefix[j]))

RECURSIVE FindSlash(_, _)
FindSlash(prefix, i) ==
    IF i < 1 THEN 0
    ELSE IF prefix[i] = "/" THEN i ELSE FindSlash(prefix, i - 1)

getPrefixLength(prefix) ==
    LET i == FindSlash(prefix, Len(prefix))
    IN  IF i = 0 THEN 32 ELSE ParseLength(prefix, i + 1, 0)

P24 == <<"1", ".", "2", ".", "3", ".", "0", "/", "2", "4">>
P8 == <<"1", "0", ".", "0", ".", "0", ".", "0", "/", "8">>
\* prefixes of the lengths at which the detectors' tables change rows, a
\* host route of each family, and a prefix given without a length
Sized ==
    [p32 |-> <<"1", ".", "2", ".", "3", ".", "4", "/", "3", "2">>,
     p31 |-> <<"1", ".", "2", ".", "3", ".", "4", "/", "3", "1">>,
     p23 |-> <<"1", ".", "2", ".", "2", ".", "0", "/", "2", "3">>,
     p16 |-> <<"1", ".", "2", ".", "0", ".", "0", "/", "1", "6">>,
     p15 |-> <<"1", ".", "2", ".", "0", ".", "0", "/", "1", "5">>,
     p128 |-> <<"2", "0", "0", "1", ":", ":", "1", "/", "1", "2", "8">>,
     bare |-> <<"1", ".", "2", ".", "3", ".", "4">>]

(***************************************************************************)
(* Updates, as the parser hands them to the queue.                         *)
(***************************************************************************)
OriginOf(asPath) == IF Len(asPath) = 0 THEN 0 ELSE asPath[Len(asPath)]

Announce(prefix, asPath, communities) ==
    [Prefix |-> prefix, ASPath |-> asPath, OriginASN |-> OriginOf(asPath),
     Communities |-> communities, Announcement |-> TRUE]

Withdraw(prefix) ==
    [Prefix |-> prefix, ASPath |-> <<>>, OriginASN |-> 0,
     Communities |-> <<>>, Announcement |-> FALSE]

NoUpdate == [Prefix |-> <<>>, ASPath |-> <<>>, OriginASN |-> 0,
             Communities |-> <<>>, Announcement |-> FALSE]

(***************************************************************************)
(* The update parser.  A frame is the JSON text the parser gets, as far as *)
(* the parser tells values apart: a JSON value is a record with its kind t *)
(* and its content v.  peer_asn is decoded into 32 bits, so its numbers    *)
(* are numerals (sequences of decimal digits) of any size, and so is the   *)
(* update's PeerASN; the ASNs of a path are numbers that fit 32 bits.      *)
(***************************************************************************)
JValue(t, v) == [t |-> t, v |-> v]
\* an element of a path that is a number fitting 32 bits, held as the list
\* of ASNs it contributes
JASN(asn) == JValue("number", <<asn>>)

\* the largest value of a uint32
MaxUint32 == <<"4", "2", "9", "4", "9", "6", "7", "2", "9", "5">>

IsNumeral(chars) ==
    /\ chars # <<>>
    /\ \A i \in 1..Len(chars) : chars[i] \in DOMAIN Digits

RECURSIVE StripZeros(_)
StripZeros(numeral) ==
    IF Len(numeral) > 1 /\ Head(numeral) = "0"
    THEN StripZeros(Tail(numeral)) ELSE numeral

\* a <= b for numerals without leading zeros
RECURSIVE DigitsLE(_, _)
DigitsLE(a, b) ==
    IF a = <<>> THEN TRUE
    ELSE IF Digits[Head(a)] # Digits[Head(b)]
         THEN Digits[Head(a)] < Digits[Head(b)]
         ELSE DigitsLE(Tail(a), Tail(b))

NumeralLE(a, b) ==
    Len(a) < Len(b) \/ (Len(a) = Len(b) /\ DigitsLE(a, b))

\* strconv.ParseUint(str, 10, 32) with its error dropped: the value, the
\* largest uint32 when the value is out of range, 0 when str is no numeral
ParseUint32(str) ==
    IF ~IsNumeral(str) THEN <<"0">>
    ELSE IF NumeralLE(StripZeros(str), MaxUint32) THEN StripZeros(str)
         ELSE MaxUint32

\* parseASN: json.Unmarshal into a uint32 (null leaves it 0, a number out
\* of range is an error), then into a string, else 0
parseASN(data) ==
    CASE data.t = "absent" -> <<"0">>
      [] data.t = "null" -> <<"0">>
      [] data.t = "number" ->
            IF NumeralLE(data.v, MaxUint32) THEN data.v ELSE <<"0">>
      [] data.t = "string" -> ParseUint32(data.v)
      [] OTHER -> <<"0">>

\* the loop of parseASPath over the elements of a mixed array: a number is
\* appended, an array of numbers is appended whole, anything else is skipped
RECURSIVE FlattenNumbersOnly(_)
FlattenNumbersOnly(elems) ==
    IF elems = <<>> THEN <<>>
    ELSE (IF Head(elems).t = "number" THEN <<Head(elems).v[1]>> ELSE <<>>)
            \o FlattenNumbersOnly(Tail(elems))
RECURSIVE Flatten(_)
Flatten(elems) ==
    IF elems = <<>> THEN <<>>
    ELSE (CASE Head(elems).t = "number" -> <<Head(elems).v[1]>>
            [] Head(elems).t = "array" -> Head(elems).v
            [] OTHER -> <<>>)
            \o Flatten(Tail(elems))

\* parseASPath: <<path, error>>; an array of numbers only is taken as it
\* is, a value that is no array is an error
parseASPath(data) ==
    CASE data.t = "absent" -> <<(<<>>), FALSE>>
      [] data.t = "array" ->
            IF \A i \in 1..Len(data.v) : data.v[i].t = "number"
            THEN <<[i \in 1..Len(data.v) |-> data.v[i].v[1]], FALSE>>
            ELSE <<Flatten(data.v), FALSE>>
      [] OTHER -> <<(<<>>), TRUE>>

\* parseCommunities: the entries that are strings, as they are (the
\* frames here carry no numeric pairs)
RECURSIVE parseCommunities(_)
parseCommunities(data) ==
    IF data = <<>> THEN <<>>
    ELSE (IF Head(data).t = "string" THEN <<Head(data).v>> ELSE <<>>)
            \o parseCommunities(Tail(data))

\* for _, ann := range Announcements { for _, prefix := range ann.Prefixes
\* { return ... } }: the prefix the nested loops reach first, <<>> if none
FirstOfFirstOnly(announcements) ==
    IF announcements = <<>> \/ Head(announcements) = <<>> THEN <<>>
    ELSE Head(Head(announcements))
RECURSIVE FirstPrefix(_)
FirstPrefix(announcements) ==
    IF announcements = <<>> THEN <<>>
    ELSE IF Head(announcements) # <<>> THEN Head(Head(announcements))
         ELSE FirstPrefix(Tail(announcements))

\* the result of ParseMessage: an error, nothing (nil, nil), or an update
ParseError == [err |-> TRUE, update |-> NoUpdate]
ParseNothing == [err |-> FALSE, update |-> NoUpdate]

ParseMessage(frame, collector) ==
    IF ~frame.valid THEN ParseError
    ELSE IF frame.type # "ris_message" THEN ParseNothing
    ELSE LET peerASN == parseASN(frame.peer_asn)
             path == parseASPath(frame.path)
             asPath == path[1]
             communities == parseCommunities(frame.community)
             prefix == FirstPrefix(frame.announcements)
         IN  IF path[2] THEN ParseError
             ELSE IF prefix # <<>>
             THEN [err |-> FALSE,
                   update |-> [Prefix |-> prefix, ASPath |-> asPath,
                               OriginASN |-> OriginOf(asPath),
                               Communities |-> communities,
                               Announcement |-> TRUE,
                               PeerASN |-> peerASN,
                               Collector |-> collector]]
             ELSE IF frame.withdrawals # <<>>
             THEN [err |-> FALSE,
                   update |-> [Prefix |-> Head(frame.withdrawals),
                               ASPath |-> <<>>, OriginASN |-> 0,
                               Communities |-> <<>>,
                               Announcement |-> FALSE,
                               PeerASN |-> peerASN,
                               Collector |-> collector]]
             ELSE ParseNothing

\* what the collectors send in the runs that exercise the hijack detector
HijackFeed ==
    { Announce(P24, <<64500>>, <<>>),
      Announce(P24, <<64501>>, <<>>),
      Announce(P24, <<13335, 64501>>, <<>>) }

\* what the collectors send in the runs that exercise the pipeline
PipelineFeed ==
    { Announce(P24, <<64500>>, <<"65535:666">>),
      Announce(P24, <<64501>>, <<>>) }

\* what the collector sends in the runs with a store that can fail: the
\* second origin's announcement also carries a blackhole community
StoreFeed ==
    { Announce(P24, <<64500>>, <<>>),
      Announce(P24, <<64501>>, <<"65535:666">>) }

\* what the collectors send in the runs with two collectors
FanInFeed == { Announce(P24, <<64500>>, <<"65535:666">>) }

\* what the collector sends in the runs that exercise one client
ClientFeed == { Withdraw(P24) }

\* what the collector sends in the runs that exercise the sink: blackhole
\* announcements whose origin the resolver does not know while it knows an
\* ASN of the path, whose origin it knows, and of which it knows nothing
SinkFeed ==
    { Announce(P24, <<3356, 64500>>, <<"65535:666">>),
      Announce(P24, <<13335>>, <<"65535:666">>),
      Announce(P24, <<64500>>, <<"65535:666">>) }

\* what the collector sends in the runs that exercise the detectors one
\* update at a time, one of these feeds per run: announcements with known
\* and unknown communities and prefixes of every length for the blackhole
\* detector, a known and a new origin for the hijack detector, paths with
\* and without a leak window for the leak detector
DetectFeeds ==
    LET BlackholeFeeds ==
            {{Announce(P24, <<64500>>, communities)} :
                communities \in
                    {<<"65535:666">>, <<"3356:9999">>, <<"6939:1234">>,
                     <<"6939:1234", "3356:9999", "65535:666">>, <<>>}}
              \cup {{[Withdraw(P24) EXCEPT !.Communities = <<"65535:666">>]}}
              \cup {{Announce(prefix, <<64500>>, <<"65535:666">>)} :
                        prefix \in {P8, Sized.p32, Sized.p31, Sized.p23,
                                    Sized.p16, Sized.p15, Sized.p128,
                                    Sized.bare}}
        HijackFeeds ==
            {{Announce(prefix, <<known>>, <<>>),
              Announce(prefix, <<64501>>, <<>>)} :
                prefix \in {P24, P8, Sized.p16, Sized.p15},
                known \in {64500, 3356}}
              \cup {{Announce(P8, <<64500>>, <<>>),
                     Announce(P8, <<174>>, <<>>)}}
        LeakFeeds ==
            {{Announce(P24, asPath, <<>>)} :
                asPath \in {<<174, 64500, 3356>>, <<174, 13335, 3356>>,
                            <<174, 6939, 3356>>, <<174, 0, 3356>>,
                            <<64500, 174, 64501, 3356, 64502, 6939>>,
                            <<174, 0, 3356, 64500, 6939>>,
                            <<174, 64500>>, <<64500, 64501, 64502>>}}
              \cup {{[Withdraw(P24) EXCEPT !.ASPath = <<174, 64500, 3356>>]}}
    IN  BlackholeFeeds \cup HijackFeeds \cup LeakFeeds

Prefixes == {P24, P8}

VARIABLES
    \* environment: what the collectors may send, and how much more of it
    feed, frames,
    \* FileResolver: the CSV file, the reader's position and the mapping
    resolver,
    \* MultiClient.updates and main's events channel
    updates, updatesClosed, events, eventsClosed,
    \* HijackDetector: cache / cacheTime (local), redis handle and its keys
    cache, cacheTime, redis, rOrigin, rOrigins,
    \* detector workers
    wk, updatesProcessed,
    \* clients, MultiClient.running
    cl, mcRunning,
    \* main goroutine
    mainPc, stopIdx,
    \* event sink goroutine
    sink, eventsDetected,
    \* EventWriter
    dbWriter, wq, wqClosed, wDone, wRunning, wpc, batch, table,
    eventsWritten, eventsDropped, batchesWritten, dbClosed,
    \* a Go runtime panic ("none" while there is none)
    panic,
    \* history: how many updates and events the queues accepted, how often
    \* each detector's Process ran, the (prefix, origin) pairs a hijack event
    \* was queued for, what the writer held when Stop was called, and what
    \* the update queue held when it was closed
    accepted, wAccepted, ran, hijacked, pendingAtStop, queuedAtClose,
    \* history: the events of the committed batches, in the order written
    written

envVars == <<feed, frames, resolver>>
chanVars == <<updates, updatesClosed, events, eventsClosed>>
storeVars == <<cache, cacheTime, redis, rOrigin, rOrigins>>
workerVars == <<wk, updatesProcessed>>
clientVars == <<cl, mcRunning>>
mainVars == <<mainPc, stopIdx>>
sinkVars == <<sink, eventsDetected>>
writerVars == <<dbWriter, wq, wqClosed, wDone, wRunning, wpc, batch, table,
                eventsWritten, eventsDropped, batchesWritten, dbClosed>>
histVars ==
    <<panic, accepted, wAccepted, ran, hijacked, pendingAtStop, queuedAtClose,
      written>>

vars == <<envVars, chanVars, storeVars, workerVars, clientVars, mainVars,
          sinkVars, writerVars, histVars>>

\* the process lives: main has not returned and no goroutine has panicked
Alive == mainPc # "done" /\ panic = "none"

(***************************************************************************)
(* Channels.                                                               *)
(***************************************************************************)
\* select { case ch <- x: default: } on an open channel of capacity cap
OfferOverfull(ch, cap, x) == Append(ch, x)
Offer(ch, cap, x) == IF Len(ch) < cap THEN Append(ch, x) ELSE ch

\* the detectors' non-blocking send on main's events channel
SendEvent(event) ==
    IF eventsClosed
    THEN /\ panic' = "send on closed events"
         /\ events' = events
    ELSE /\ panic' = panic
         /\ events' = Offer(events, EventsCap, event)

(***************************************************************************)
(* Events, as the detectors build them.  The runs of the pipeline have no   *)
(* clock: DetectedAt (time.Now()) is the one instant 0 there.               *)
(***************************************************************************)
BGPEvent(type, severity, category, asn, prefix, details) ==
    [EventType |-> type, Severity |-> severity, EventCategory |-> category,
     AffectedASN |-> asn, AffectedPrefix |-> prefix, CountryCode |-> "",
     DetectedAt |-> 0, IsActive |-> TRUE, Details |-> details]

NoEvent == [EventType |-> "none"]

\* BlackholeDetector.Process, the event it builds (confidence in percent)
BlackholeEventOffByOne(update) ==
    LET prefixLen == getPrefixLength(update.Prefix)
        isHostRoute == (prefixLen = 32) \/ (prefixLen = 128)
        confidence == IF isHostRoute THEN 95
                      ELSE IF prefixLen > 24 THEN 85 ELSE 60
        severity == IF isHostRoute THEN "medium"
                    ELSE IF prefixLen <= 16 THEN "high" ELSE "medium"
    IN  BGPEvent("blackhole", severity, "defense", update.OriginASN,
                 update.Prefix,
                 [signal |-> "blackhole_community",
                  blackhole_communities |->
                      GetBlackholeCommunities(update.Communities),
                  as_path |-> update.ASPath,
                  is_host_route |-> isHostRoute,
                  confidence |-> confidence])
BlackholeEvent(update) ==
    LET prefixLen == getPrefixLength(update.Prefix)
        isHostRoute == (prefixLen = 32) \/ (prefixLen = 128)
        confidence == IF isHostRoute THEN 95
                      ELSE IF prefixLen >= 24 THEN 85 ELSE 60
        severity == IF isHostRoute THEN "medium"
                    ELSE IF prefixLen < 16 THEN "high" ELSE "medium"
    IN  BGPEvent("blackhole", severity, "defense", update.OriginASN,
                 update.Prefix,
                 [signal |-> "blackhole_community",
                  blackhole_communities |->
                      GetBlackholeCommunities(update.Communities),
                  as_path |-> update.ASPath,
                  is_host_route |-> isHostRoute,
                  confidence |-> confidence])

BlackholeFiresOnWithdrawal(update) ==
    HasBlackholeCommunity(update.Communities)
BlackholeFires(update) ==
    update.Announcement /\ HasBlackholeCommunity(update.Communities)

\* HijackDetector.Process, the event it builds for a divergent origin
HijackEventSwapped(update, knownOrigin) ==
    BGPEvent("hijack", "medium", "attack", update.OriginASN, update.Prefix,
             [original_origin |-> update.OriginASN,
              hijacking_asn |-> knownOrigin,
              as_path |-> update.ASPath,
              flags |-> <<"origin_change">>,
              confidence |-> 70])
HijackEvent(update, knownOrigin) ==
    LET severity ==
            IF IsTier1(knownOrigin) \/ IsTier1(update.OriginASN)
            THEN "critical"
            ELSE IF getPrefixLength(update.Prefix) < 16 THEN "high"
                 ELSE "medium"
        confidence == IF severity = "critical" THEN 90
                      ELSE IF severity = "high" THEN 80 ELSE 70
        flags == IF severity = "critical"
                 THEN <<"origin_change", "tier1_involved">>
                 ELSE IF severity = "high"
                      THEN <<"origin_change", "large_prefix">>
                      ELSE <<"origin_change">>
    IN  BGPEvent("hijack", severity, "attack", knownOrigin, update.Prefix,
                 [original_origin |-> knownOrigin,
                  hijacking_asn |-> update.OriginASN,
                  as_path |-> update.ASPath,
                  flags |-> flags,
                  confidence |-> confidence])

\* LeakDetector.findLeakPattern: <<leakASN, tier1Before, tier1After>>
RECURSIVE findLeakPatternFrom(_, _)
findLeakPatternFrom(asPath, i) ==
    IF i > Len(asPath) - 2 THEN <<0, 0, 0>>
    ELSE IF /\ IsTier1(asPath[i])
            /\ IsTier1(asPath[i + 2])
            /\ ~IsTier1(asPath[i + 1])
            /\ ~IsScrubbing(asPath[i + 1])
         THEN <<asPath[i + 1], asPath[i], asPath[i + 2]>>
         ELSE findLeakPatternFrom(asPath, i + 1)

findLeakPattern(asPath) == findLeakPatternFrom(asPath, 1)

LeakFires(update) ==
    /\ update.Announcement
    /\ Len(update.ASPath) >= 3
    /\ findLeakPattern(update.ASPath)[1] # 0

LeakEvent(update) ==
    LET m == findLeakPattern(update.ASPath)
    IN  BGPEvent("leak", "high", "misconfiguration", m[1], update.Prefix,
                 [pattern |-> "tier1_transit_leak",
                  leaking_asn |-> m[1],
                  upstream_tier1 |-> m[2],
                  downstream_tier1 |-> m[3],
                  as_path |-> update.ASPath,
                  confidence |-> 85])

(***************************************************************************)
(* Detector workers: for update := range client.Updates() { blackhole;     *)
(* hijack; leak }.  The stateless detectors are one step each; the hijack  *)
(* detector is one step per access to the shared origin store.             *)
(***************************************************************************)
WorkerAt(w, pc) == wk[w].pc = pc

WorkerGoto(w, pc) == wk' = [wk EXCEPT ![w].pc = pc]

\* a worker receives the next update of the queue
WorkerTake(w) ==
    /\ Alive
    /\ WorkerAt(w, "range")
    /\ updates # <<>>
    /\ wk' = [wk EXCEPT ![w] = [pc |-> "blackhole", update |-> Head(updates),
                                knownOrigin |-> 0, isMOAS |-> FALSE,
                                sent |-> FALSE]]
    /\ updates' = Tail(updates)
    /\ updatesProcessed' = updatesProcessed + 1
    /\ UNCHANGED <<envVars, updatesClosed, events, eventsClosed, storeVars,
                   clientVars, mainVars, sinkVars, writerVars, histVars>>

\* the range loop ends: the queue is closed and drained
WorkerExitEarly(w) ==
    /\ Alive
    /\ WorkerAt(w, "range")
    /\ updatesClosed
    /\ WorkerGoto(w, "exited")
    /\ UNCHANGED <<envVars, chanVars, storeVars, updatesProcessed,
                   clientVars, mainVars, sinkVars, writerVars, histVars>>
WorkerExit(w) ==
    /\ Alive
    /\ WorkerAt(w, "range")
    /\ updates = <<>>
    /\ updatesClosed
    /\ WorkerGoto(w, "exited")
    /\ UNCHANGED <<envVars, chanVars, storeVars, updatesProcessed,
                   clientVars, mainVars, sinkVars, writerVars, histVars>>

BlackholeProcess(w) ==
    /\ Alive
    /\ WorkerAt(w, "blackhole")
    /\ IF BlackholeFires(wk[w].update)
       THEN SendEvent(BlackholeEvent(wk[w].update))
       ELSE UNCHANGED <<events, panic>>
    /\ WorkerGoto(w, "hijack")
    /\ ran' = [ran EXCEPT !["blackhole"] = @ + 1]
    /\ UNCHANGED <<envVars, updates, updatesClosed, eventsClosed, storeVars,
                   updatesProcessed, clientVars, mainVars, sinkVars,
                   writerVars, accepted, wAccepted, hijacked,
                   pendingAtStop, queuedAtClose, written>>

LeakProcess(w) ==
    /\ Alive
    /\ WorkerAt(w, "leak")
    /\ IF LeakFires(wk[w].update)
       THEN SendEvent(LeakEvent(wk[w].update))
       ELSE UNCHANGED <<events, panic>>
    /\ WorkerGoto(w, "range")
    /\ ran' = [ran EXCEPT !["leak"] = @ + 1]
    /\ UNCHANGED <<envVars, updates, updatesClosed, eventsClosed, storeVars,
                   updatesProcessed, clientVars, mainVars, sinkVars,
                   writerVars, accepted, wAccepted, hijacked,
                   pendingAtStop, queuedAtClose, written>>

(***************************************************************************)
(* HijackDetector.Process and the origin store.                            *)
(***************************************************************************)
\* the local cache answers: the entry exists and is younger than cacheTTL
LocalHitWhateverAge(prefix) == cache[prefix] # 0
LocalHit(prefix) == cache[prefix] # 0 /\ cacheTime[prefix] = "fresh"

\* where Process goes once getKnownOrigin has returned knownOrigin
AfterLookupNoEqualTest(update, knownOrigin) ==
    IF knownOrigin = 0 THEN "setKnownOrigin"
    ELSE IF redis = "nil" THEN "emit" ELSE "isKnownMOAS"
AfterLookupRelearns(update, knownOrigin) ==
    IF knownOrigin = update.OriginASN THEN "leak" ELSE "setKnownOrigin"
AfterLookup(update, knownOrigin) ==
    IF knownOrigin = 0 THEN "setKnownOrigin"
    ELSE IF knownOrigin = update.OriginASN THEN "leak"
         ELSE IF redis = "nil" THEN "emit" ELSE "isKnownMOAS"

HijackUnchanged ==
    UNCHANGED <<envVars, chanVars, updatesProcessed, clientVars, mainVars,
                sinkVars, writerVars, panic, accepted, wAccepted, hijacked,
                pendingAtStop, queuedAtClose, written>>

\* Process up to getKnownOrigin's look at the local cache
HijackProcess(w) ==
    LET u == wk[w].update
    IN  /\ Alive
        /\ WorkerAt(w, "hijack")
        /\ IF ~u.Announcement \/ u.OriginASN = 0 \/ HasScrubbingCenter(u.ASPath)
           THEN WorkerGoto(w, "leak")
           ELSE IF LocalHit(u.Prefix)
                THEN wk' = [wk EXCEPT
                              ![w].knownOrigin = cache[u.Prefix],
                              ![w].pc = AfterLookup(u, cache[u.Prefix])]
                ELSE IF redis = "nil"
                     THEN wk' = [wk EXCEPT ![w].knownOrigin = 0,
                                           ![w].pc = AfterLookup(u, 0)]
                     ELSE WorkerGoto(w, "getRedis")
        /\ ran' = [ran EXCEPT !["hijack"] = @ + 1]
        /\ UNCHANGED storeVars
        /\ HijackUnchanged

\* getKnownOrigin: d.redis.Get; any error (no such key, store down) is "0"
getKnownOriginRedis(w) ==
    LET u == wk[w].update
    IN  /\ Alive
        /\ WorkerAt(w, "getRedis")
        /\ IF redis = "up" /\ rOrigin[u.Prefix] # 0
           THEN wk' = [wk EXCEPT ![w].knownOrigin = rOrigin[u.Prefix],
                                 ![w].pc = "fillCache"]
           ELSE wk' = [wk EXCEPT ![w].knownOrigin = 0,
                                 ![w].pc = AfterLookup(u, 0)]
        /\ UNCHANGED <<storeVars, ran>>
        /\ HijackUnchanged

\* getKnownOrigin: the read-through d.cache.Store / d.cacheTime.Store
getKnownOriginFill(w) ==
    LET u == wk[w].update
    IN  /\ Alive
        /\ WorkerAt(w, "fillCache")
        /\ cache' = [cache EXCEPT ![u.Prefix] = wk[w].knownOrigin]
        /\ cacheTime' = [cacheTime EXCEPT ![u.Prefix] = "fresh"]
        /\ WorkerGoto(w, AfterLookup(u, wk[w].knownOrigin))
        /\ UNCHANGED <<redis, rOrigin, rOrigins, ran>>
        /\ HijackUnchanged

\* setKnownOrigin: d.cache.Store / d.cacheTime.Store
setKnownOriginLocal(w) ==
    LET u == wk[w].update
    IN  /\ Alive
        /\ WorkerAt(w, "setKnownOrigin")
        /\ cache' = [cache EXCEPT ![u.Prefix] = u.OriginASN]
        /\ cacheTime' = [cacheTime EXCEPT ![u.Prefix] = "fresh"]
        /\ WorkerGoto(w, IF redis = "nil" THEN "leak" ELSE "setRedis")
        /\ UNCHANGED <<redis, rOrigin, rOrigins, ran>>
        /\ HijackUnchanged

\* setKnownOrigin: d.redis.Set (an error is logged and swallowed)
setKnownOriginRedis(w) ==
    LET u == wk[w].update
    IN  /\ Alive
        /\ WorkerAt(w, "setRedis")
        /\ rOrigin' = IF redis = "up"
                      THEN [rOrigin EXCEPT ![u.Prefix] = u.OriginASN]
                      ELSE rOrigin
        /\ WorkerGoto(w, "leak")
        /\ UNCHANGED <<cache, cacheTime, redis, rOrigins, ran>>
        /\ HijackUnchanged

\* isKnownMOAS: SIsMember(...).Val(), false on any error (without a store
\* Process goes on to the event at once, see AfterLookup)
MemberOfMOASNever(prefix, origin) == FALSE
MemberOfMOASWhateverStore(prefix, origin) == origin \in rOrigins[prefix]
MemberOfMOAS(prefix, origin) == redis = "up" /\ origin \in rOrigins[prefix]

isKnownMOAS(w) ==
    LET u == wk[w].update
    IN  /\ Alive
        /\ WorkerAt(w, "isKnownMOAS")
        /\ IF MemberOfMOAS(u.Prefix, u.OriginASN)
           THEN wk' = [wk EXCEPT ![w].isMOAS = TRUE, ![w].pc = "leak"]
           ELSE WorkerGoto(w, "emit")
        /\ UNCHANGED <<storeVars, ran>>
        /\ HijackUnchanged

\* the event is built and offered to the events channel
HijackEmit(w) ==
    /\ Alive
    /\ WorkerAt(w, "emit")
    /\ SendEvent(HijackEvent(wk[w].update, wk[w].knownOrigin))
    /\ wk' = [wk EXCEPT
                ![w].pc = IF redis = "nil" THEN "leak" ELSE "addKnownMOAS",
                ![w].sent = ~eventsClosed /\ Len(events) < EventsCap]
    /\ hijacked' = IF ~eventsClosed /\ Len(events) < EventsCap
                   THEN hijacked \cup
                          {<<wk[w].update.Prefix, wk[w].update.OriginASN>>}
                   ELSE hijacked
    /\ UNCHANGED <<envVars, updates, updatesClosed, eventsClosed, storeVars,
                   updatesProcessed, clientVars, mainVars, sinkVars,
                   writerVars, accepted, wAccepted, ran, pendingAtStop,
                   queuedAtClose, written>>

\* addKnownMOAS: SAdd + Expire (it returns at once without a store)
addKnownMOAS(w) ==
    LET u == wk[w].update
    IN  /\ Alive
        /\ WorkerAt(w, "addKnownMOAS")
        /\ rOrigins' = IF redis = "up"
                       THEN [rOrigins EXCEPT
                               ![u.Prefix] = @ \cup {u.OriginASN}]
                       ELSE rOrigins
        /\ WorkerGoto(w, "leak")
        /\ UNCHANGED <<cache, cacheTime, redis, rOrigin, ran>>
        /\ HijackUnchanged

\* time passes: a local entry becomes older than cacheTTL (5 minutes)
LocalExpire(prefix) ==
    /\ Alive
    /\ cacheTime[prefix] = "fresh"
    /\ cacheTime' = [cacheTime EXCEPT ![prefix] = "stale"]
    /\ UNCHANGED <<cache, redis, rOrigin, rOrigins>>
    /\ UNCHANGED <<wk, ran>>
    /\ HijackUnchanged

\* the store stops answering, or answers again: while it is "down" every
\* call on the handle (Get, Set, SIsMember, SAdd, Expire) returns an error
StoreFault ==
    /\ Alive
    /\ redis # "nil"
    /\ redis' = IF redis = "up" THEN "down" ELSE "up"
    /\ UNCHANGED <<cache, cacheTime, rOrigin, rOrigins>>
    /\ UNCHANGED <<wk, ran>>
    /\ HijackUnchanged

\* time passes: the store drops a key whose 48 hours are over
RedisExpire(prefix) ==
    /\ Alive
    /\ redis = "up"
    /\ \/ /\ rOrigin[prefix] # 0
          /\ rOrigin' = [rOrigin EXCEPT ![prefix] = 0]
          /\ UNCHANGED rOrigins
       \/ /\ rOrigins[prefix] # {}
          /\ rOrigins' = [rOrigins EXCEPT ![prefix] = {}]
          /\ UNCHANGED rOrigin
    /\ UNCHANGED <<cache, cacheTime, redis>>
    /\ UNCHANGED <<wk, ran>>
    /\ HijackUnchanged

(***************************************************************************)
(* Stream clients (rislive.Client).  One record per client:                *)
(*   pc        where runLoop / connectAndStream stands                     *)
(*   running, connected   the atomic flags                                 *)
(*   done      the done channel is closed                                  *)
(*   conn      "none", "open" or "closed"                                  *)
(*   ping      "none", "run" (the ping goroutine selects) or "end"         *)
(*   delay     reconnectDelay, in seconds                                  *)
(*   timers    how often time.After has fired in runLoop                   *)
(*   streak    history: the failed connections since the last clean one    *)
(*   loops     history: how many runLoop goroutines Start has spawned      *)
(*   startCalls  history: how often Start was called on the client         *)
(*   parsed    history: the frames handed to ParseMessage and its results   *)
(***************************************************************************)
ClientSeq == <<"rrc00", "rrc01">>

\* mc.clients: the configured collectors, in order
InClients(c) == c \in DOMAIN cl
McClients == SelectSeq(ClientSeq, InClients)

NewClient ==
    [pc |-> "new", running |-> FALSE, connected |-> FALSE, done |-> FALSE,
     conn |-> "none", ping |-> "none", delay |-> initialReconnectDelay,
     timers |-> 0, messagesReceived |-> 0, updatesParsed |-> 0,
     errors |-> 0, reconnects |-> 0, streak |-> 0, loops |-> 0,
     startCalls |-> 0, parsed |-> <<>>]

\* Client.Start: if c.running.Swap(true) { return }; c.wg.Add(1);
\* go c.runLoop()
AlreadyRunningNever(c) == FALSE
AlreadyRunning(c) == cl[c].running

ClientStarted(c) ==
    IF AlreadyRunning(c)
    THEN [cl[c] EXCEPT !.startCalls = @ + 1]
    ELSE [cl[c] EXCEPT !.running = TRUE, !.pc = "loop", !.loops = @ + 1,
                       !.startCalls = @ + 1]

ClientUnchanged ==
    UNCHANGED <<events, eventsClosed, storeVars, workerVars, mcRunning,
                mainVars, sinkVars, writerVars, wAccepted, ran, hijacked,
                pendingAtStop, queuedAtClose, written>>

ClientOnly ==
    /\ ClientUnchanged
    /\ UNCHANGED <<envVars, updates, updatesClosed, accepted, panic>>

\* runLoop: for c.running.Load() { ... }; the loop's end is wg.Done
RunLoopCheck(c) ==
    /\ Alive
    /\ cl[c].pc = "loop"
    /\ cl' = [cl EXCEPT ![c].pc = IF cl[c].running THEN "dial" ELSE "exited"]
    /\ ClientOnly

\* connectAndStream: dialer.Dial returns a connection
Dial(c) ==
    /\ Alive
    /\ cl[c].pc = "dial"
    /\ cl' = [cl EXCEPT ![c].conn = "open", ![c].pc = "subscribe"]
    /\ ClientOnly

\* connectAndStream: dialer.Dial returns an error; runLoop counts it
DialFails(c) ==
    /\ Alive
    /\ cl[c].pc = "dial"
    /\ cl' = [cl EXCEPT ![c].errors = @ + 1, ![c].reconnects = @ + 1,
                        ![c].streak = @ + 1, ![c].pc = "select"]
    /\ ClientOnly

\* connectAndStream: conn.WriteJSON(subscribeMsg) succeeds; the client is
\* connected and the ping goroutine starts
Subscribe(c) ==
    /\ Alive
    /\ cl[c].pc = "subscribe"
    /\ cl' = [cl EXCEPT ![c].connected = TRUE, ![c].ping = "run",
                        ![c].pc = "read"]
    /\ ClientOnly

\* connectAndStream: conn.WriteJSON(subscribeMsg) fails; the deferred
\* conn.Close runs and runLoop counts the error
SubscribeFails(c) ==
    /\ Alive
    /\ cl[c].pc = "subscribe"
    /\ cl' = [cl EXCEPT ![c].conn = "closed",
                        ![c].errors = @ + 1, ![c].reconnects = @ + 1,
                        ![c].streak = @ + 1, ![c].pc = "select"]
    /\ ClientOnly

\* the read loop's condition: for c.running.Load(); when it is false the
\* function returns nil and its defers close pingDone and the connection
ReadLoopCheck(c) ==
    /\ Alive
    /\ cl[c].pc = "read"
    /\ IF cl[c].running
       THEN cl' = [cl EXCEPT ![c].pc = "recv"]
       ELSE cl' = [cl EXCEPT ![c].connected = FALSE, ![c].conn = "closed",
                             ![c].ping = "none", ![c].streak = 0,
                             ![c].pc = "select"]
    /\ ClientOnly

\* the frames a collector sends: an update, a text frame that parses to
\* nothing, a text frame that does not parse, a binary frame
Frames == [kind : {"update"}, update : feed]
            \cup [kind : {"control", "malformed", "binary"},
                  update : {NoUpdate}]

\* the non-blocking send of an update on c.updates
PushUpdate(update) ==
    IF updatesClosed
    THEN /\ panic' = "send on closed updates"
         /\ UNCHANGED <<updates, accepted>>
    ELSE /\ panic' = panic
         /\ updates' = Offer(updates, BufferSize, update)
         /\ accepted' = IF Len(updates) < BufferSize
                        THEN accepted + 1 ELSE accepted

\* conn.ReadMessage returns a frame; the loop body handles it
ReadMessage(c, frame) ==
    /\ Alive
    /\ cl[c].pc = "recv"
    /\ cl[c].conn = "open"
    /\ frames > 0
    /\ frames' = frames - 1
    /\ UNCHANGED <<feed, resolver>>
    /\ updatesClosed' = updatesClosed
    /\ CASE frame.kind = "binary" ->
                /\ cl' = [cl EXCEPT ![c].pc = "read"]
                /\ UNCHANGED <<updates, accepted, panic>>
         [] frame.kind \in {"control", "malformed"} ->
                /\ cl' = [cl EXCEPT ![c].messagesReceived = @ + 1,
                                    ![c].pc = "read"]
                /\ UNCHANGED <<updates, accepted, panic>>
         [] frame.kind = "update" ->
                /\ cl' = [cl EXCEPT ![c].messagesReceived = @ + 1,
                                    ![c].updatesParsed = @ + 1,
                                    ![c].pc = "read"]
                /\ PushUpdate(frame.update)
    /\ ClientUnchanged

\* the frames of a collector as the parser sees them
Wire(peer_asn, path, announcements, withdrawals) ==
    [valid |-> TRUE, type |-> "ris_message", peer_asn |-> peer_asn,
     path |-> path, announcements |-> announcements,
     withdrawals |-> withdrawals,
     community |-> <<JValue("string", "65535:666")>>]

\* the frames a collector sends in the runs that exercise the parser: one
\* announcement with peer_asn in every form, one with a path of every
\* shape, frames with and without announcements, prefixes and withdrawals,
\* a frame of another type, and a text that is no JSON
WireFrames ==
    LET FlatPath == JValue("array", <<JASN(6939), JASN(3356), JASN(13335)>>)
        Peer6939 == JValue("number", <<"6", "9", "3", "9">>)
        TwoTo32 == <<"4", "2", "9", "4", "9", "6", "7", "2", "9", "6">>
        WirePeers ==
            {Peer6939, JValue("string", <<"6", "9", "3", "9">>),
             JValue("number", MaxUint32), JValue("string", MaxUint32),
             JValue("number", TwoTo32), JValue("string", TwoTo32),
             JValue("null", <<>>), JValue("absent", <<>>),
             JValue("string", <<"0", "0", "7">>),
             JValue("string", <<"A", "S", "7">>)}
        WirePaths ==
            {FlatPath,
             JValue("array", <<JValue("array", <<174>>),
                               JValue("array", <<3356, 7018>>),
                               JASN(13335)>>),
             JValue("array", <<JASN(174), JValue("array", <<>>),
                               JASN(3356)>>),
             JValue("array", <<JValue("array", <<174, 3356>>)>>),
             JValue("array", <<JASN(174), JValue("string", <<>>),
                               JASN(3356)>>),
             JValue("array", <<>>), JValue("absent", <<>>),
             JValue("string", <<>>)}
        Plain == Wire(Peer6939, FlatPath, <<<<P24>>>>, <<>>)
    IN  {Wire(peer, FlatPath, <<<<P24>>>>, <<>>) : peer \in WirePeers}
          \cup {Wire(Peer6939, path, <<<<P24>>>>, <<>>) : path \in WirePaths}
          \cup {Wire(Peer6939, FlatPath, announcements, withdrawals) :
                  announcements \in {<<>>, <<<<>>>>, <<<<P24, P8>>>>,
                                     <<<<>>, <<P8>>>>},
                  withdrawals \in {<<>>, <<P8, P24>>}}
          \cup {[Plain EXCEPT !.type = "ris_error"],
                [Plain EXCEPT !.valid = FALSE]}

\* conn.ReadMessage returns a text frame; the loop body counts it, parses
\* it, and pushes the update if there is one
ReadWire(c, frame) ==
    LET result == ParseMessage(frame, c)
        seen == [cl[c] EXCEPT !.messagesReceived = @ + 1, !.pc = "read",
                              !.parsed = Append(@, [frame |-> frame,
                                                    result |-> result])]
    IN  /\ Alive
        /\ cl[c].pc = "recv"
        /\ cl[c].conn = "open"
        /\ frames > 0
        /\ frames' = frames - 1
        /\ UNCHANGED <<feed, resolver>>
        /\ updatesClosed' = updatesClosed
        /\ IF result.err \/ result.update = NoUpdate
           THEN /\ cl' = [cl EXCEPT ![c] = seen]
                /\ UNCHANGED <<updates, accepted, panic>>
           ELSE /\ cl' = [cl EXCEPT
                            ![c] = [seen EXCEPT !.updatesParsed = @ + 1]]
                /\ PushUpdate(result.update)
        /\ ClientUnchanged

\* conn.ReadMessage returns an error because the connection was closed
\* under the reader (by the ping goroutine, on done): not a close error, so
\* connectAndStream returns it, its defers run, and runLoop counts it
ReadClosed(c) ==
    /\ Alive
    /\ cl[c].pc = "recv"
    /\ cl[c].conn = "closed"
    /\ cl' = [cl EXCEPT ![c].connected = FALSE, ![c].ping = "none",
                        ![c].errors = @ + 1, ![c].reconnects = @ + 1,
                        ![c].streak = @ + 1, ![c].pc = "select"]
    /\ ClientOnly

\* conn.ReadMessage returns a normal close of the peer: return nil
PeerCloses(c) ==
    /\ Alive
    /\ cl[c].pc = "recv"
    /\ cl[c].conn = "open"
    /\ cl' = [cl EXCEPT ![c].connected = FALSE, ![c].conn = "closed",
                        ![c].ping = "none", ![c].streak = 0,
                        ![c].pc = "select"]
    /\ ClientOnly

\* conn.ReadMessage returns any other error of the connection
ReadFailsFlagKept(c) ==
    /\ Alive
    /\ cl[c].pc = "recv"
    /\ cl[c].conn = "open"
    /\ cl' = [cl EXCEPT ![c].conn = "closed", ![c].ping = "none",
                        ![c].errors = @ + 1, ![c].reconnects = @ + 1,
                        ![c].streak = @ + 1, ![c].pc = "select"]
    /\ ClientOnly

ReadFails(c) ==
    /\ Alive
    /\ cl[c].pc = "recv"
    /\ cl[c].conn = "open"
    /\ cl' = [cl EXCEPT ![c].connected = FALSE, ![c].conn = "closed",
                        ![c].ping = "none",
                        ![c].errors = @ + 1, ![c].reconnects = @ + 1,
                        ![c].streak = @ + 1, ![c].pc = "select"]
    /\ ClientOnly

\* the ping goroutine: a ping write fails and the goroutine returns
PingWriteFails(c) ==
    /\ Alive
    /\ cl[c].ping = "run"
    /\ cl' = [cl EXCEPT ![c].ping = "end"]
    /\ ClientOnly

\* the ping goroutine: <-c.done, conn.Close() to unblock ReadMessage
PingOnDone(c) ==
    /\ Alive
    /\ cl[c].ping = "run"
    /\ cl[c].done
    /\ cl' = [cl EXCEPT ![c].conn = "closed", ![c].ping = "end"]
    /\ ClientOnly

\* runLoop's select: <-c.done returns (wg.Done)
SelectDone(c) ==
    /\ Alive
    /\ cl[c].pc = "select"
    /\ cl[c].done
    /\ cl' = [cl EXCEPT ![c].pc = "exited"]
    /\ ClientOnly

\* runLoop's select: <-time.After(reconnectDelay), the exponential backoff
NextDelay(delay) ==
    IF delay * reconnectBackoff > maxReconnectDelay
    THEN maxReconnectDelay
    ELSE delay * reconnectBackoff

SelectTimer(c) ==
    /\ Alive
    /\ cl[c].pc = "select"
    /\ cl[c].timers < MaxTimers
    /\ cl' = [cl EXCEPT ![c].delay = NextDelay(@), ![c].timers = @ + 1,
                        ![c].conn = "none", ![c].pc = "loop"]
    /\ ClientOnly

\* what the client's own code does when the network behaves
ClientStep(c) ==
    \/ RunLoopCheck(c)
    \/ Dial(c)
    \/ Subscribe(c)
    \/ ReadLoopCheck(c)
    \/ ReadClosed(c)
    \/ PingOnDone(c)
    \/ SelectDone(c)
    \/ SelectTimer(c)

\* Start is called once more on a client that is running
ClientStartAgain(c) ==
    /\ Alive
    /\ cl[c].running
    /\ cl[c].startCalls < MaxStarts
    /\ cl' = [cl EXCEPT ![c] = ClientStarted(c)]
    /\ ClientOnly

\* what the network may do to a client
NetworkFault(c) ==
    \/ DialFails(c)
    \/ SubscribeFails(c)
    \/ PeerCloses(c)
    \/ ReadFails(c)
    \/ PingWriteFails(c)

(***************************************************************************)
(* Country resolution (the sink's enrichment).                             *)
(***************************************************************************)
ResolverTable == [asn \in {13335, 3356} |-> "US"]

Resolve(asn) == IF asn \in DOMAIN ResolverTable THEN ResolverTable[asn] ELSE ""

(***************************************************************************)
(* FileResolver.load.  A string is a sequence of characters, a row of the  *)
(* CSV file a sequence of fields.                                          *)
(***************************************************************************)
RECURSIVE TrimLeft(_)
TrimLeft(str) ==
    IF str # <<>> /\ Head(str) = " " THEN TrimLeft(Tail(str)) ELSE str

RECURSIVE TrimRight(_)
TrimRight(str) ==
    IF str # <<>> /\ str[Len(str)] = " "
    THEN TrimRight(SubSeq(str, 1, Len(str) - 1)) ELSE str

\* strings.TrimSpace
TrimSpace(str) == TrimRight(TrimLeft(str))

\* strings.ToUpper
ToUpper(str) ==
    [i \in 1..Len(str) |->
        CASE str[i] = "u" -> "U"
          [] str[i] = "s" -> "S"
          [] str[i] = "a" -> "A"
          [] OTHER -> str[i]]

RECURSIVE DecimalValue(_)
DecimalValue(str) ==
    IF str = <<>> THEN 0
    ELSE 10 * DecimalValue(SubSeq(str, 1, Len(str) - 1))
           + Digits[str[Len(str)]]

\* strconv.Atoi: an error for the empty string and for any character that
\* is not a digit (the files here carry no sign)
Atoi(str) ==
    IF str # <<>> /\ \A i \in 1..Len(str) : str[i] \in DOMAIN Digits
    THEN [err |-> FALSE, n |-> DecimalValue(str)]
    ELSE [err |-> TRUE, n |-> 0]

\* r.mapping[asn] = country
MapStore(mapping, asn, country) ==
    {e \in mapping : e[1] # asn} \cup {<<asn, country>>}

\* the files the resolver may be given: up to MaxRows rows
CsvFiles ==
    LET First == {<<"a", "s", "n">>, <<"1", "7">>, <<" ", "1", "7", " ">>,
                  <<"7">>}
        Second == {<<"u", "s">>, <<"U", "S">>, <<" ", "u", "s", " ">>,
                   <<"u", "s", "a">>, <<"u">>, <<"1", "u">>, <<>>}
        Rows == {<<a, b>> : a \in First, b \in Second} \cup {<<<<"1", "7">>>>}
    IN  UNION {[1..n -> Rows] : n \in 0..MaxRows}

\* no file resolver (the null resolver or the database one)
NoResolver == [pc |-> "none", rows |-> <<>>, next |-> 0, mapping |-> {}]

ResolverUnchanged ==
    UNCHANGED <<feed, frames, chanVars, storeVars, workerVars, clientVars,
                mainVars, sinkVars, writerVars, histVars>>

\* load: the first reader.Read() and the test whether it is data
LoadHeader ==
    LET header == resolver.rows[1]
        asn == Atoi(TrimSpace(header[1]))
    IN  /\ Alive
        /\ resolver.pc = "open"
        /\ IF resolver.rows = <<>>
           THEN resolver' = [resolver EXCEPT !.pc = "failed"]
           ELSE resolver' =
                  [resolver EXCEPT
                     !.pc = "rows",
                     !.next = 2,
                     !.mapping =
                        IF Len(header) >= 2 /\ ~asn.err
                        THEN MapStore(@, asn.n, ToUpper(TrimSpace(header[2])))
                        ELSE @]
        /\ ResolverUnchanged

\* load: one turn of the loop; the reader reports a row whose number of
\* fields differs from the first row's as an error
LoadRecord ==
    LET record == resolver.rows[resolver.next]
        asn == Atoi(TrimSpace(record[1]))
        country == ToUpper(TrimSpace(record[2]))
    IN  /\ Alive
        /\ resolver.pc = "rows"
        /\ IF resolver.next > Len(resolver.rows)
           THEN resolver' = [resolver EXCEPT !.pc = "loaded"]
           ELSE resolver' =
                  [resolver EXCEPT
                     !.next = @ + 1,
                     !.mapping =
                        IF /\ Len(record) = Len(resolver.rows[1])
                           /\ Len(record) >= 2
                           /\ ~asn.err
                           /\ Len(country) = 2
                        THEN MapStore(@, asn.n, country)
                        ELSE @]
        /\ ResolverUnchanged

RECURSIVE ResolveFromPath(_)
ResolveFromPath(asPath) ==
    IF asPath = <<>> THEN ""
    ELSE IF Resolve(Head(asPath)) # "" THEN Resolve(Head(asPath))
         ELSE ResolveFromPath(Tail(asPath))

\* event.Details["as_path"].([]interface{}): the detectors store the
\* update's ASPath, a []uint32, so the assertion does not hold and the
\* path is not consulted
AsPathIsInterfaceSlice(event) == FALSE

\* the sink's enrichment: the affected ASN, then the path, then "XX"
EnrichNoFallback(event) ==
    [event EXCEPT !.CountryCode =
        IF event.CountryCode = "" /\ event.AffectedASN > 0
        THEN Resolve(event.AffectedASN) ELSE event.CountryCode]
Enrich(event) ==
    LET first == IF event.CountryCode = "" /\ event.AffectedASN > 0
                 THEN Resolve(event.AffectedASN) ELSE event.CountryCode
        second == IF first = "" /\ AsPathIsInterfaceSlice(event)
                  THEN ResolveFromPath(event.Details.as_path) ELSE first
    IN  [event EXCEPT !.CountryCode = IF second = "" THEN "XX" ELSE second]

(***************************************************************************)
(* Event sink goroutine: for event := range events { enrich; write; log }  *)
(***************************************************************************)
SinkUnchanged ==
    UNCHANGED <<envVars, updates, updatesClosed, eventsClosed, storeVars,
                workerVars, clientVars, mainVars, accepted, ran, hijacked,
                pendingAtStop, queuedAtClose, written>>

SinkTake ==
    /\ Alive
    /\ sink.pc = "range"
    /\ events # <<>>
    /\ sink' = [pc |-> "handle", event |-> Head(events)]
    /\ events' = Tail(events)
    /\ eventsDetected' = eventsDetected + 1
    /\ UNCHANGED <<writerVars, wAccepted, panic>>
    /\ SinkUnchanged

\* EventWriter.Write: a non-blocking send on the writer's queue
SinkHandle ==
    /\ Alive
    /\ sink.pc = "handle"
    /\ sink' = [pc |-> "range", event |-> NoEvent]
    /\ IF ~dbWriter
       THEN UNCHANGED <<wq, eventsDropped, wAccepted, panic>>
       ELSE IF wqClosed
            THEN /\ panic' = "send on closed queue"
                 /\ UNCHANGED <<wq, eventsDropped, wAccepted>>
            ELSE /\ wq' = Offer(wq, WriterQueueCap, Enrich(sink.event))
                 /\ eventsDropped' = IF Len(wq) < WriterQueueCap
                                     THEN eventsDropped
                                     ELSE eventsDropped + 1
                 /\ wAccepted' = IF Len(wq) < WriterQueueCap
                                 THEN wAccepted + 1 ELSE wAccepted
                 /\ panic' = panic
    /\ UNCHANGED <<events, eventsDetected, dbWriter, wqClosed, wDone,
                   wRunning, wpc, batch, table, eventsWritten,
                   batchesWritten, dbClosed>>
    /\ SinkUnchanged

\* the range loop ends: the events channel is closed and drained
SinkExit ==
    /\ Alive
    /\ sink.pc = "range"
    /\ events = <<>>
    /\ eventsClosed
    /\ sink' = [sink EXCEPT !.pc = "exited"]
    /\ UNCHANGED <<events, eventsDetected, writerVars, wAccepted, panic>>
    /\ SinkUnchanged

(***************************************************************************)
(* EventWriter: the table, writeEvent, writeBatch and writerLoop.          *)
(***************************************************************************)
severityOrder == [s \in {"low", "medium", "high", "critical"} |->
                    CASE s = "low" -> 0 [] s = "medium" -> 1
                      [] s = "high" -> 2 [] s = "critical" -> 3]

\* SELECT ... WHERE country_code = $1 AND event_type = $2 AND
\* affected_asn = $3 AND affected_prefix = $4 AND is_active = true
SameSignatureAnyState(row, event) ==
    /\ row.country_code = event.CountryCode
    /\ row.event_type = event.EventType
    /\ row.affected_asn = event.AffectedASN
    /\ row.affected_prefix = event.AffectedPrefix
SameSignature(row, event) ==
    /\ row.country_code = event.CountryCode
    /\ row.event_type = event.EventType
    /\ row.affected_asn = event.AffectedASN
    /\ row.affected_prefix = event.AffectedPrefix
    /\ row.is_active

\* writeEvent, the severity the UPDATE stores: raised when the event's
\* severity is higher in severityOrder, never lowered
newSeverityLatest(existingSeverity, eventSeverity) == eventSeverity
newSeverity(existingSeverity, eventSeverity) ==
    IF severityOrder[eventSeverity] > severityOrder[existingSeverity]
    THEN eventSeverity ELSE existingSeverity

\* UPDATE bgp_events SET last_seen_at = $1, severity = $2 WHERE id = $3
UpdateRowSeverityOnly(row, event) ==
    [row EXCEPT !.severity = newSeverity(row.severity, event.Severity)]
UpdateRow(row, event) ==
    [row EXCEPT !.last_seen_at = event.DetectedAt,
                !.severity = newSeverity(row.severity, event.Severity)]

\* INSERT INTO bgp_events (...): is_active is the literal true, detected_at
\* and last_seen_at are both the event's DetectedAt
InsertRow(event) ==
    [country_code |-> event.CountryCode,
     event_type |-> event.EventType,
     severity |-> event.Severity,
     affected_asn |-> event.AffectedASN,
     affected_prefix |-> event.AffectedPrefix,
     detected_at |-> event.DetectedAt,
     last_seen_at |-> event.DetectedAt,
     is_active |-> TRUE]

\* writeEvent within the batch's transaction: update the active row with
\* the event's signature, or insert a new row (SELECT ... LIMIT 1 takes the
\* row of the lowest id here; no reachable table has two rows to take from)
writeEvent(rows, event) ==
    LET hits == {i \in 1..Len(rows) : SameSignature(rows[i], event)}
    IN  IF hits # {}
        THEN LET id == CHOOSE i \in hits : \A j \in hits : i <= j
             IN  [rows EXCEPT ![id] = UpdateRow(rows[id], event)]
        ELSE Append(rows, InsertRow(event))

RECURSIVE writeEvents(_, _)
writeEvents(rows, evs) ==
    IF evs = <<>> THEN rows
    ELSE writeEvents(writeEvent(rows, Head(evs)), Tail(evs))

\* writeBatch: one transaction for the batch, then the counters
writeBatch(evs) ==
    /\ table' = writeEvents(table, evs)
    /\ eventsWritten' = eventsWritten + Len(evs)
    /\ batchesWritten' = batchesWritten + 1
    /\ written' = written \o evs

\* what a step of the writer that writes no batch leaves alone
NoBatch == UNCHANGED <<table, eventsWritten, batchesWritten, written>>

WriterUnchanged ==
    UNCHANGED <<envVars, chanVars, storeVars, workerVars, clientVars,
                mainVars, sinkVars, dbWriter, wDone, wRunning,
                eventsDropped, dbClosed, panic, accepted, wAccepted, ran,
                hijacked, pendingAtStop, queuedAtClose>>

\* the batch after append(batch, event): written when it is full
\* if len(batch) >= batchSize
BatchFullLate(b) == Len(b) > BatchCap
BatchFull(b) == Len(b) >= BatchCap

TakeIntoBatch ==
    LET grown == Append(batch, Head(wq))
    IN  /\ wq' = Tail(wq)
        /\ IF BatchFull(grown)
           THEN /\ writeBatch(grown)
                /\ batch' = <<>>
           ELSE /\ batch' = grown
                /\ NoBatch

\* writerLoop's select: case event := <-w.queue
WriterRecv ==
    /\ Alive
    /\ wpc = "select"
    /\ wq # <<>>
    /\ TakeIntoBatch
    /\ UNCHANGED <<wpc, wqClosed>>
    /\ WriterUnchanged

\* writerLoop's select: case <-ticker.C
WriterTick ==
    /\ Alive
    /\ wpc = "select"
    /\ batch # <<>>
    /\ writeBatch(batch)
    /\ batch' = <<>>
    /\ UNCHANGED <<wpc, wq, wqClosed>>
    /\ WriterUnchanged

\* writeBatch when w.db.Begin() or tx.Commit() returns an error: the error
\* is logged, the deferred Rollback undoes the statements, the counters
\* are not reached
writeBatchFailsCounted(evs) ==
    /\ eventsWritten' = eventsWritten + Len(evs)
    /\ batchesWritten' = batchesWritten + 1
    /\ UNCHANGED <<table, written>>
writeBatchFails(evs) == NoBatch

\* writerLoop's select: case event := <-w.queue, with a batch that fails
WriterRecvFault ==
    /\ Alive
    /\ wpc = "select"
    /\ wq # <<>>
    /\ BatchFull(Append(batch, Head(wq)))
    /\ wq' = Tail(wq)
    /\ writeBatchFails(Append(batch, Head(wq)))
    /\ batch' = <<>>
    /\ UNCHANGED <<wpc, wqClosed>>
    /\ WriterUnchanged

\* writerLoop's select: case <-ticker.C, with a batch that fails
WriterTickFault ==
    /\ Alive
    /\ wpc = "select"
    /\ batch # <<>>
    /\ writeBatchFails(batch)
    /\ batch' = <<>>
    /\ UNCHANGED <<wpc, wq, wqClosed>>
    /\ WriterUnchanged

\* writerLoop's select: case <-w.done: close(w.queue)
WriterOnDone ==
    /\ Alive
    /\ wpc = "select"
    /\ wDone
    /\ wqClosed' = TRUE
    /\ wpc' = "drain"
    /\ UNCHANGED <<wq, batch>>
    /\ NoBatch
    /\ WriterUnchanged

\* for event := range w.queue, on the closed queue
WriterDrain ==
    /\ Alive
    /\ wpc = "drain"
    /\ wq # <<>>
    /\ TakeIntoBatch
    /\ UNCHANGED <<wpc, wqClosed>>
    /\ WriterUnchanged

\* the queue is drained: the last batch is written and the loop returns
WriterReturn ==
    /\ Alive
    /\ wpc = "drain"
    /\ wq = <<>>
    /\ IF batch # <<>>
       THEN writeBatch(batch)
       ELSE NoBatch
    /\ batch' = <<>>
    /\ wpc' = "exited"
    /\ UNCHANGED <<wq, wqClosed>>
    /\ WriterUnchanged

WriterStep ==
    \/ WriterRecv
    \/ WriterTick
    \/ WriterOnDone
    \/ WriterDrain
    \/ WriterReturn

(***************************************************************************)
(* The writer alone: events handed to EventWriter.Write in any order.      *)
(***************************************************************************)
\* the instants an event may carry as DetectedAt
WriterTimes == {1, 2}

\* an event as the sink hands it to Write: enriched, formed at instant t
WriterEvent(asn, severity, t) ==
    [Enrich(BGPEvent("hijack", severity, "attack", asn, P24,
                     [as_path |-> <<>>]))
       EXCEPT !.DetectedAt = t]

\* one key with three severities and two instants, and one other key
WriterFeed ==
    { WriterEvent(13335, s, t) : s \in {"low", "medium", "critical"},
                                 t \in WriterTimes }
      \cup { WriterEvent(64500, "high", 1) }

\* a row of bgp_events that is no longer active (closed outside the program)
ClosedRow ==
    [InsertRow(WriterEvent(13335, "critical", 0)) EXCEPT !.is_active = FALSE]

\* EventWriter.Write(event): the non-blocking send on the writer's queue
WriterWrite(event) ==
    /\ Alive
    /\ dbWriter
    /\ wAccepted + eventsDropped < MaxWrites
    /\ IF wqClosed
       THEN /\ panic' = "send on closed queue"
            /\ UNCHANGED <<wq, eventsDropped, wAccepted>>
       ELSE /\ wq' = Offer(wq, WriterQueueCap, event)
            /\ eventsDropped' = IF Len(wq) < WriterQueueCap
                                THEN eventsDropped
                                ELSE eventsDropped + 1
            /\ wAccepted' = IF Len(wq) < WriterQueueCap
                            THEN wAccepted + 1 ELSE wAccepted
            /\ panic' = panic
    /\ UNCHANGED <<envVars, chanVars, storeVars, workerVars, clientVars,
                   mainVars, sinkVars, dbWriter, wqClosed, wDone, wRunning,
                   wpc, batch, dbClosed, accepted, ran, hijacked,
                   pendingAtStop, queuedAtClose>>
    /\ NoBatch

(***************************************************************************)
(* main: start the clients, wait for the signal, shut down.                *)
(***************************************************************************)
MainUnchanged ==
    UNCHANGED <<envVars, updates, events, storeVars, workerVars, sinkVars,
                dbWriter, wq, wqClosed, wpc, batch, table, eventsWritten,
                eventsDropped, batchesWritten, accepted, wAccepted, ran,
                hijacked, written>>

MainOnly ==
    /\ MainUnchanged
    /\ UNCHANGED <<pendingAtStop, queuedAtClose>>

\* MultiClient.Start: Client.Start for every client (go c.runLoop())
MultiClientStart ==
    /\ Alive
    /\ mainPc = "start"
    /\ mcRunning' = TRUE
    /\ cl' = [c \in DOMAIN cl |-> ClientStarted(c)]
    /\ mainPc' = "wait"
    /\ UNCHANGED <<stopIdx, updatesClosed, eventsClosed, wDone, wRunning,
                   dbClosed, panic>>
    /\ MainOnly

\* <-sigChan
Signal ==
    /\ Alive
    /\ mainPc = "wait"
    /\ mainPc' = "mcStop"
    /\ UNCHANGED <<stopIdx, clientVars, updatesClosed, eventsClosed, wDone,
                   wRunning, dbClosed, panic>>
    /\ MainOnly

\* MultiClient.Stop: if !mc.running.Swap(false) { return }
MultiClientStop ==
    /\ Alive
    /\ mainPc = "mcStop"
    /\ mcRunning' = FALSE
    /\ mainPc' = IF mcRunning THEN "stopSwap" ELSE "wgWait"
    /\ stopIdx' = 1
    /\ UNCHANGED <<cl, updatesClosed, eventsClosed, wDone, wRunning,
                   dbClosed, panic>>
    /\ MainOnly

\* the pc of MultiClient.Stop after the client at stopIdx is dealt with
AfterClient == IF stopIdx >= Len(McClients) THEN "closeUpdates" ELSE "stopSwap"

\* Client.Stop: if !c.running.Swap(false) { return }
ClientStopSwap ==
    LET c == McClients[stopIdx]
    IN  /\ Alive
        /\ mainPc = "stopSwap"
        /\ IF cl[c].running
           THEN /\ cl' = [cl EXCEPT ![c].running = FALSE]
                /\ mainPc' = "stopClose"
                /\ stopIdx' = stopIdx
           ELSE /\ cl' = cl
                /\ mainPc' = AfterClient
                /\ stopIdx' = stopIdx + 1
        /\ UNCHANGED <<mcRunning, updatesClosed, eventsClosed, wDone,
                       wRunning, dbClosed, panic>>
        /\ MainOnly

\* Client.Stop: close(c.done)
ClientStopClose ==
    LET c == McClients[stopIdx]
    IN  /\ Alive
        /\ mainPc = "stopClose"
        /\ IF cl[c].done
           THEN /\ panic' = "close of closed done"
                /\ cl' = cl
           ELSE /\ panic' = panic
                /\ cl' = [cl EXCEPT ![c].done = TRUE]
        /\ mainPc' = "stopWait"
        /\ UNCHANGED <<stopIdx, mcRunning, updatesClosed, eventsClosed,
                       wDone, wRunning, dbClosed>>
        /\ MainOnly

\* Client.Stop: c.wg.Wait() returns once runLoop has returned
WaitGroupDoneNoWait(c) == TRUE
WaitGroupDone(c) == cl[c].pc = "exited"

ClientStopWait ==
    /\ Alive
    /\ mainPc = "stopWait"
    /\ WaitGroupDone(McClients[stopIdx])
    /\ mainPc' = AfterClient
    /\ stopIdx' = stopIdx + 1
    /\ UNCHANGED <<clientVars, updatesClosed, eventsClosed, wDone, wRunning,
                   dbClosed, panic>>
    /\ MainOnly

\* Client.Start on a client whose Stop has returned (a new runLoop with its
\* own reconnectDelay), followed at any later moment by Client.Stop
ClientRestart(c) ==
    /\ Alive
    /\ mainPc = "closeUpdates"
    /\ ~cl[c].running
    /\ cl[c].startCalls < MaxStarts
    /\ cl' = [cl EXCEPT ![c] = [ClientStarted(c) EXCEPT
                                  !.delay = initialReconnectDelay]]
    /\ mainPc' = "stopSwap"
    /\ stopIdx' = 1
    /\ UNCHANGED <<mcRunning, updatesClosed, eventsClosed, wDone, wRunning,
                   dbClosed, panic>>
    /\ MainOnly

\* MultiClient.Stop: close(mc.updates)
CloseUpdates ==
    /\ Alive
    /\ mainPc = "closeUpdates"
    /\ updatesClosed' = TRUE
    /\ mainPc' = "wgWait"
    /\ UNCHANGED <<stopIdx, clientVars, eventsClosed, wDone, wRunning,
                   dbClosed, panic>>
    /\ queuedAtClose' = Len(updates)
    /\ pendingAtStop' = pendingAtStop
    /\ MainUnchanged

\* main: wg.Wait() returns once every detector worker has returned
WorkersDone == \A w \in Workers : wk[w].pc = "exited"

\* main: wg.Wait(); close(events)
CloseEvents ==
    /\ Alive
    /\ mainPc = "wgWait"
    /\ WorkersDone
    /\ eventsClosed' = TRUE
    /\ mainPc' = "dbStop"
    /\ UNCHANGED <<stopIdx, clientVars, updatesClosed, wDone, wRunning,
                   dbClosed, panic>>
    /\ MainOnly

\* main: if dbWriter != nil { dbWriter.Stop() }, up to close(w.done)
WriterStop ==
    /\ Alive
    /\ mainPc = "dbStop"
    /\ IF dbWriter /\ wRunning
       THEN /\ wRunning' = FALSE
            /\ wDone' = TRUE
            /\ pendingAtStop' = Len(wq) + Len(batch)
            /\ mainPc' = "dbWait"
       ELSE /\ UNCHANGED <<wRunning, wDone, pendingAtStop>>
            /\ mainPc' = "exit"
    /\ UNCHANGED <<stopIdx, clientVars, updatesClosed, eventsClosed,
                   dbClosed, panic>>
    /\ queuedAtClose' = queuedAtClose
    /\ MainUnchanged

\* EventWriter.Stop: w.wg.Wait(); w.db.Close()
WriterLoopDone == wpc = "exited"

WriterStopWait ==
    /\ Alive
    /\ mainPc = "dbWait"
    /\ WriterLoopDone
    /\ dbClosed' = TRUE
    /\ mainPc' = "exit"
    /\ UNCHANGED <<stopIdx, clientVars, updatesClosed, eventsClosed, wDone,
                   wRunning, panic>>
    /\ MainOnly

\* main returns: the process exits and every goroutine ends with it
MainReturn ==
    /\ Alive
    /\ mainPc = "exit"
    /\ mainPc' = "done"
    /\ UNCHANGED <<stopIdx, clientVars, updatesClosed, eventsClosed, wDone,
                   wRunning, dbClosed, panic>>
    /\ MainOnly

\* main without a database writer to wait for
MainNoWriter ==
    \/ MultiClientStart
    \/ Signal
    \/ MultiClientStop
    \/ ClientStopSwap
    \/ ClientStopClose
    \/ ClientStopWait
    \/ CloseUpdates
    \/ CloseEvents
    \/ WriterStop
    \/ MainReturn

MainStep ==
    \/ MainNoWriter
    \/ WriterStopWait

\* client.Start() ... client.Stop(), the part of main that drives the clients
MainClients ==
    \/ MultiClientStart
    \/ Signal
    \/ MultiClientStop
    \/ ClientStopSwap
    \/ ClientStopClose
    \/ ClientStopWait
    \/ CloseUpdates

\* a worker's steps when no key-value store is configured, without and with
\* the emission of a hijack event
WorkerLearning(w) ==
    \/ WorkerTake(w)
    \/ WorkerExit(w)
    \/ BlackholeProcess(w)
    \/ HijackProcess(w)
    \/ setKnownOriginLocal(w)
    \/ LeakProcess(w)

WorkerNoStore(w) ==
    \/ WorkerLearning(w)
    \/ HijackEmit(w)

\* a worker's steps while the program runs (the queue is not closed)
WorkerRunning(w) ==
    \/ WorkerTake(w)
    \/ BlackholeProcess(w)
    \/ HijackProcess(w)
    \/ getKnownOriginRedis(w)
    \/ getKnownOriginFill(w)
    \/ setKnownOriginLocal(w)
    \/ setKnownOriginRedis(w)
    \/ isKnownMOAS(w)
    \/ HijackEmit(w)
    \/ addKnownMOAS(w)
    \/ LeakProcess(w)

(***************************************************************************)
(* The program.                                                            *)
(***************************************************************************)
IdleWorker ==
    [pc |-> "range", update |-> NoUpdate, knownOrigin |-> 0, isMOAS |-> FALSE,
     sent |-> FALSE]

\* the state in which main is about to call client.Start(): the workers
\* and the sink are blocked on their empty channels
\* the state after construction, the origin store being empty for the
\* prefixes that may come
InitOver(prefixes) ==
    /\ updates = <<>> /\ updatesClosed = FALSE
    /\ events = <<>> /\ eventsClosed = FALSE
    /\ cache = [p \in prefixes |-> 0]
    /\ cacheTime = [p \in prefixes |-> "none"]
    /\ rOrigin = [p \in prefixes |-> 0]
    /\ rOrigins = [p \in prefixes |-> {}]
    /\ wk = [w \in Workers |-> IdleWorker]
    /\ updatesProcessed = 0
    /\ stopIdx = 1
    /\ sink = [pc |-> "range", event |-> NoEvent]
    /\ eventsDetected = 0
    /\ wq = <<>> /\ wqClosed = FALSE /\ wDone = FALSE
    /\ wRunning = dbWriter
    /\ wpc = IF dbWriter THEN "select" ELSE "none"
    /\ batch = <<>>
    /\ eventsWritten = 0 /\ eventsDropped = 0 /\ batchesWritten = 0
    /\ dbClosed = FALSE
    /\ accepted = 0 /\ wAccepted = 0 /\ panic = "none"
    /\ ran = [d \in {"blackhole", "hijack", "leak"} |-> 0]
    /\ hijacked = {}
    /\ pendingAtStop = 0
    /\ queuedAtClose = 0
    /\ written = <<>>

InitCommon == InitOver(Prefixes) /\ resolver = NoResolver

\* the whole program: one collector (the default, rrc00), with or without a
\* database, no key-value store, a network that behaves
Init ==
    /\ feed = PipelineFeed
    /\ frames = MaxFrames
    /\ cl = [c \in {"rrc00"} |-> NewClient]
    /\ mcRunning = FALSE
    /\ mainPc = "start"
    /\ dbWriter \in BOOLEAN
    /\ redis = "nil"
    /\ table = <<>>
    /\ InitCommon

Next ==
    \/ MainStep
    \/ \E c \in DOMAIN cl : ClientStep(c)
    \/ \E c \in DOMAIN cl : \E u \in feed :
          ReadMessage(c, [kind |-> "update", update |-> u])
    \/ \E w \in Workers : WorkerNoStore(w)
    \/ SinkTake
    \/ SinkHandle
    \/ SinkExit
    \/ WriterStep

Spec == Init /\ [][Next]_vars

\* two collectors feed the one update queue; no database, no store
InitFanIn ==
    /\ feed = FanInFeed
    /\ frames = MaxFrames
    /\ cl = [c \in {"rrc00", "rrc01"} |-> NewClient]
    /\ mcRunning = FALSE
    /\ mainPc = "start"
    /\ dbWriter = FALSE
    /\ redis = "nil"
    /\ table = <<>>
    /\ InitCommon

NextFanIn ==
    \/ MainNoWriter
    \/ \E c \in DOMAIN cl : ClientStep(c)
    \/ \E c \in DOMAIN cl : \E u \in feed :
          ReadMessage(c, [kind |-> "update", update |-> u])
    \/ \E w \in Workers : WorkerLearning(w)
    \/ SinkTake
    \/ SinkHandle
    \/ SinkExit

SpecFanIn == InitFanIn /\ [][NextFanIn]_vars

\* one client between Start and Stop, on a network that may fail and a
\* collector that sends frames of every kind; Start may be called again on
\* the running client; the detectors downstream are not scheduled
InitClient ==
    /\ feed = ClientFeed
    /\ frames = MaxFrames
    /\ cl = [c \in {"rrc00"} |-> NewClient]
    /\ mcRunning = FALSE
    /\ mainPc = "start"
    /\ dbWriter = FALSE
    /\ redis = "nil"
    /\ table = <<>>
    /\ InitCommon

NextClient ==
    \/ MainClients
    \/ \E c \in DOMAIN cl : ClientStep(c)
    \/ \E c \in DOMAIN cl : NetworkFault(c)
    \/ \E c \in DOMAIN cl : \E frame \in Frames : ReadMessage(c, frame)
    \/ \E c \in DOMAIN cl : ClientStartAgain(c)

SpecClient == InitClient /\ [][NextClient]_vars

\* the same client, which may also be started again after its Stop
NextRestart ==
    \/ NextClient
    \/ \E c \in DOMAIN cl : ClientRestart(c)

SpecRestart == InitClient /\ [][NextRestart]_vars

\* the hijack detector at work: the client is connected and reads, main
\* waits for the signal, the store is absent or present, time passes
ConnectedClient ==
    [NewClient EXCEPT !.pc = "recv", !.running = TRUE, !.connected = TRUE,
                      !.conn = "open", !.ping = "run", !.loops = 1,
                      !.startCalls = 1]

\* the parser at work: the client is connected and reads frames of every
\* shape; the detectors downstream are not scheduled
InitParser ==
    /\ feed = {}
    /\ frames = MaxFrames
    /\ cl = [c \in {"rrc00"} |-> ConnectedClient]
    /\ mcRunning = TRUE
    /\ mainPc = "wait"
    /\ dbWriter = FALSE
    /\ redis = "nil"
    /\ table = <<>>
    /\ InitCommon

NextParser ==
    \/ \E c \in DOMAIN cl : ReadLoopCheck(c)
    \/ \E c \in DOMAIN cl : \E frame \in WireFrames : ReadWire(c, frame)

SpecParser == InitParser /\ [][NextParser]_vars

\* the detectors at work on one small feed: the client is connected and
\* reads, one worker runs the three detectors on each update, the sink
\* takes the events, there is neither a store nor a database
InitDetect ==
    /\ feed \in DetectFeeds
    /\ frames = MaxFrames
    /\ cl = [c \in {"rrc00"} |-> ConnectedClient]
    /\ mcRunning = TRUE
    /\ mainPc = "wait"
    /\ dbWriter = FALSE
    /\ redis = "nil"
    /\ table = <<>>
    /\ InitOver(Prefixes \cup {Sized[k] : k \in DOMAIN Sized})
    /\ resolver = NoResolver

NextDetect ==
    \/ \E c \in DOMAIN cl : ReadLoopCheck(c)
    \/ \E c \in DOMAIN cl : \E u \in feed :
          ReadMessage(c, [kind |-> "update", update |-> u])
    \/ WorkerTake("w1")
    \/ BlackholeProcess("w1")
    \/ HijackProcess("w1")
    \/ setKnownOriginLocal("w1")
    \/ HijackEmit("w1")
    \/ LeakProcess("w1")
    \/ SinkTake
    \/ SinkHandle

SpecDetect == InitDetect /\ [][NextDetect]_vars

InitHijack ==
    /\ feed = HijackFeed
    /\ frames = MaxHijackFrames
    /\ cl = [c \in {"rrc00"} |-> ConnectedClient]
    /\ mcRunning = TRUE
    /\ mainPc = "wait"
    /\ dbWriter = FALSE
    /\ redis \in {"nil", "up"}
    /\ table = <<>>
    /\ InitCommon

NextHijack ==
    \/ \E c \in DOMAIN cl : ReadLoopCheck(c)
    \/ \E c \in DOMAIN cl : \E u \in feed :
          ReadMessage(c, [kind |-> "update", update |-> u])
    \/ \E w \in Workers : WorkerRunning(w)
    \/ SinkTake
    \/ SinkHandle
    \/ \E p \in Prefixes : LocalExpire(p)
    \/ \E p \in Prefixes : RedisExpire(p)

SpecHijack == InitHijack /\ [][NextHijack]_vars

\* the hijack detector, run by one worker, over a store whose calls can fail
\* at any moment
InitStore ==
    /\ feed = StoreFeed
    /\ frames = MaxHijackFrames
    /\ cl = [c \in {"rrc00"} |-> ConnectedClient]
    /\ mcRunning = TRUE
    /\ mainPc = "wait"
    /\ dbWriter = FALSE
    /\ redis \in {"up", "down"}
    /\ table = <<>>
    /\ InitCommon

NextStore ==
    \/ \E c \in DOMAIN cl : ReadLoopCheck(c)
    \/ \E c \in DOMAIN cl : \E u \in feed :
          ReadMessage(c, [kind |-> "update", update |-> u])
    \/ WorkerRunning("w1")
    \/ SinkTake
    \/ SinkHandle
    \/ \E p \in Prefixes : LocalExpire(p)
    \/ StoreFault

SpecStore == InitStore /\ [][NextStore]_vars

\* the sink at work: the client is connected and reads, the detectors emit
\* blackhole events, the sink enriches them and hands them to the writer
InitSink ==
    /\ feed = SinkFeed
    /\ frames = MaxFrames
    /\ cl = [c \in {"rrc00"} |-> ConnectedClient]
    /\ mcRunning = TRUE
    /\ mainPc = "wait"
    /\ dbWriter = TRUE
    /\ redis = "nil"
    /\ table = <<>>
    /\ InitCommon

NextSink ==
    \/ \E c \in DOMAIN cl : ReadLoopCheck(c)
    \/ \E c \in DOMAIN cl : \E u \in feed :
          ReadMessage(c, [kind |-> "update", update |-> u])
    \/ \E w \in Workers : WorkerTake(w)
    \/ \E w \in Workers : BlackholeProcess(w)
    \/ \E w \in Workers : HijackProcess(w)
    \/ \E w \in Workers : setKnownOriginLocal(w)
    \/ \E w \in Workers : LeakProcess(w)
    \/ SinkTake
    \/ SinkHandle
    \/ WriterRecv
    \/ WriterTick

SpecSink == InitSink /\ [][NextSink]_vars

\* NewFileResolver: the file has been opened and load reads it
InitResolver ==
    /\ feed = {}
    /\ frames = 0
    /\ cl = [c \in {"rrc00"} |-> NewClient]
    /\ mcRunning = FALSE
    /\ mainPc = "start"
    /\ dbWriter = FALSE
    /\ redis = "nil"
    /\ table = <<>>
    /\ InitOver(Prefixes)
    /\ resolver \in {[pc |-> "open", rows |-> file, next |-> 1, mapping |-> {}] :
                        file \in CsvFiles}

NextResolver ==
    \/ LoadHeader
    \/ LoadRecord

SpecResolver == InitResolver /\ [][NextResolver]_vars

\* the writer alone: its loop runs, events are handed to Write in any
\* order, the table starts empty or with a row that is no longer active
InitWriter ==
    /\ feed = {}
    /\ frames = 0
    /\ cl = [c \in {"rrc00"} |-> ConnectedClient]
    /\ mcRunning = TRUE
    /\ mainPc = "wait"
    /\ dbWriter = TRUE
    /\ redis = "nil"
    /\ table \in {<<>>, <<ClosedRow>>}
    /\ InitCommon

NextWriter ==
    \/ \E event \in WriterFeed : WriterWrite(event)
    \/ WriterRecv
    \/ WriterTick

SpecWriter == InitWriter /\ [][NextWriter]_vars

\* the writer alone over a database whose transactions can fail
NextWriterFault ==
    \/ NextWriter
    \/ WriterRecvFault
    \/ WriterTickFault

SpecWriterFault == InitWriter /\ [][NextWriterFault]_vars

(***************************************************************************)
(* Properties of the update queue and of shutdown.                         *)
(***************************************************************************)
\* client c handled an update frame in this step
Pushed(c) == cl'[c].updatesParsed = cl[c].updatesParsed + 1

\* a reader that has a frame to handle
CanRead(c) ==
    Alive /\ cl[c].pc = "recv" /\ cl[c].conn = "open" /\ frames > 0

\* C1: a client's push of an update into the shared update queue of capacity
\* BufferSize never blocks: with fewer than BufferSize updates queued the
\* update is appended, with BufferSize queued it is discarded and the queue
\* is left as it was; the queue never holds more than BufferSize updates.
UpdatePushNeverBlocks ==
    /\ [](Len(updates) <= BufferSize)
    /\ [](\A c \in DOMAIN cl : CanRead(c) =>
             \A u \in feed :
                 ENABLED ReadMessage(c, [kind |-> "update", update |-> u]))
    /\ [][\A c \in DOMAIN cl : Pushed(c) =>
             IF Len(updates) < BufferSize
             THEN \E u \in feed : updates' = Append(updates, u)
             ELSE updates' = updates]_vars

\* C1, its case: both collectors have pushed, the queue is full and an
\* update was discarded
UpdateDiscarded ==
    \E c1, c2 \in DOMAIN cl :
        /\ c1 # c2
        /\ cl[c1].updatesParsed >= 1
        /\ cl[c2].updatesParsed >= 1
        /\ Len(updates) = BufferSize
        /\ accepted < cl[c1].updatesParsed + cl[c2].updatesParsed

\* C6: the update queue is closed only after every client's run loop has
\* returned and the event queue only after every detector worker has
\* returned; no client sends on the closed update queue and no detector
\* sends on the closed event queue.
QueuesClosedAfterProducers ==
    /\ updatesClosed => \A c \in DOMAIN cl : cl[c].pc = "exited"
    /\ eventsClosed => \A w \in Workers : wk[w].pc = "exited"
    /\ panic \notin {"send on closed updates", "send on closed events"}

\* C6, its case: both queues are closed after both collectors pushed
\* updates and the detectors emitted an event
ClosedAfterTraffic ==
    /\ updatesClosed /\ eventsClosed
    /\ \A c \in DOMAIN cl : cl[c].updatesParsed >= 1
    /\ eventsDetected + Len(events) >= 1

\* C8, as claimed: by the time the writer is stopped and by the time the
\* process has exited, the sink has processed every event of the event
\* queue; the sink's loop ends only on the closed and empty event queue.
SinkDrainsBeforeExit ==
    /\ (wDone \/ mainPc = "done") => (events = <<>> /\ sink.pc # "handle")
    /\ sink.pc = "exited" => (eventsClosed /\ events = <<>>)

\* C9, as claimed: once Stop was called on the writer, what its queue and
\* its batch held is written before the handle is closed and the writer
\* loop has ended; the process does not end with events of the writer
\* unwritten.
WriterFlushesOnStop ==
    /\ dbClosed => /\ wpc = "exited"
                   /\ wq = <<>> /\ batch = <<>>
                   /\ eventsWritten = wAccepted
    /\ (wDone /\ ~Alive) => (wq = <<>> /\ batch = <<>>)

\* the workers that hold an update
BusyWorkers == {w \in Workers : wk[w].pc \notin {"range", "exited"}}

\* C10: every update the update queue accepted is taken by exactly one
\* worker and run through the blackhole, hijack and leak detectors, the
\* updates still queued at shutdown included; a worker's loop ends only on
\* the closed and empty update queue.
UpdatesAllDetected ==
    /\ accepted = updatesProcessed + Len(updates)
    /\ updatesProcessed = ran["leak"] + Cardinality(BusyWorkers)
    /\ ran["blackhole"] >= ran["hijack"] /\ ran["hijack"] >= ran["leak"]
    /\ \A w \in Workers :
           wk[w].pc = "exited" => (updatesClosed /\ updates = <<>>)
    /\ WorkersDone =>
           ran = [d \in {"blackhole", "hijack", "leak"} |-> accepted]

\* C10, its case: the queue still held updates when it was closed, and the
\* workers have run them all and returned
QueuedAtShutdownDetected ==
    /\ WorkersDone
    /\ queuedAtClose >= 1
    /\ ran["leak"] = accepted

(***************************************************************************)
(* Properties of the hijack detector.                                      *)
(***************************************************************************)
\* worker w takes a step, and a step that leaves the place pc
StepOf(w) == wk'[w] # wk[w]
Leaves(w, pc) == wk[w].pc = pc /\ wk'[w].pc # pc

\* the last event of the queue is the hijack event of worker w's update:
\* the known origin is the victim, the update's origin the hijacker
QueuedHijackOf(w, q) ==
    /\ q # <<>>
    /\ q[Len(q)].EventType = "hijack"
    /\ q[Len(q)].AffectedPrefix = wk[w].update.Prefix
    /\ q[Len(q)].AffectedASN = wk[w].knownOrigin
    /\ q[Len(q)].Details.original_origin = wk[w].knownOrigin
    /\ q[Len(q)].Details.hijacking_asn = wk[w].update.OriginASN

\* worker w holds an announcement whose origin differs from the known one
\* and whose path has no scrubbing ASN
Divergent(w) ==
    /\ wk[w].update.Announcement
    /\ wk[w].update.OriginASN # 0
    /\ ~HasScrubbingCenter(wk[w].update.ASPath)
    /\ wk[w].knownOrigin # 0
    /\ wk[w].knownOrigin # wk[w].update.OriginASN

\* C2, as claimed: with origin A known, an announcement with another origin
\* B, no scrubbing ASN on its path and B not in the MOAS set puts exactly
\* one hijack event (affected_asn = A, hijacking_asn = B) on the event queue.
HijackEventAlwaysQueued ==
    [][\A w \in Workers : Leaves(w, "emit") =>
          /\ Len(events') = Len(events) + 1
          /\ QueuedHijackOf(w, events')]_vars

\* C2, amended: such an announcement reaches the emission, the emission
\* appends exactly that one event when the event queue has room and leaves
\* the queue as it is when it is full; learning an origin queues nothing and
\* a hijack event is queued by such an announcement only.
HijackEventQueuedIfRoom ==
    /\ [](\A w \in Workers : wk[w].pc = "emit" => Divergent(w))
    /\ [][\A w \in Workers :
            /\ (StepOf(w) /\ wk[w].pc \in {"hijack", "fillCache"}
                  /\ wk'[w].knownOrigin \notin {0, wk[w].update.OriginASN})
               => wk'[w].pc = IF redis = "nil" THEN "emit" ELSE "isKnownMOAS"
            /\ (StepOf(w) /\ wk[w].pc = "isKnownMOAS"
                  /\ ~(redis = "up"
                       /\ wk[w].update.OriginASN
                            \in rOrigins[wk[w].update.Prefix]))
               => wk'[w].pc = "emit"
            /\ Leaves(w, "emit") =>
                  IF Len(events) < EventsCap
                  THEN /\ Len(events') = Len(events) + 1
                       /\ SubSeq(events', 1, Len(events)) = events
                       /\ QueuedHijackOf(w, events')
                  ELSE events' = events]_vars
    /\ [][Len(events') > Len(events) =>
            \E w \in Workers : Leaves(w, "emit") /\ Divergent(w)]_vars

\* C2, its case: the event of origin 64501 against the learned 64500 is queued
HijackEventQueued ==
    \E i \in 1..Len(events) :
        /\ events[i].EventType = "hijack"
        /\ events[i].AffectedASN = 64500
        /\ events[i].Details.hijacking_asn = 64501

Known(p, c, t, r) ==
    IF c[p] # 0 /\ t[p] = "fresh" THEN c[p]
    ELSE IF redis = "up" THEN r[p] ELSE 0

\* C4, as claimed: while a prefix has a known origin nothing changes it (it
\* may only expire), and the MOAS set only grows.
KnownOriginNeverChanges ==
    [][\A p \in Prefixes :
          /\ Known(p, cache, cacheTime, rOrigin) # 0
             => Known(p, cache', cacheTime', rOrigin')
                  \in {0, Known(p, cache, cacheTime, rOrigin)}
          /\ rOrigins[p] \subseteq rOrigins'[p] \/ rOrigins'[p] = {}]_vars

\* C4, amended: an announcement for which the lookup returned a known origin
\* never gets to setKnownOrigin, and after the lookup it writes neither the
\* local map nor the store's origin key; on a divergence the one write is
\* that the prefix's MOAS set grows by the divergent origin.
DetectionKeepsKnownOrigin ==
    /\ [](\A w \in Workers :
            wk[w].pc \in {"setKnownOrigin", "setRedis"}
               => wk[w].knownOrigin = 0)
    /\ [][\A w \in Workers :
            (StepOf(w) /\ wk[w].pc \in {"isKnownMOAS", "emit", "addKnownMOAS"})
            => /\ cache' = cache /\ cacheTime' = cacheTime
               /\ rOrigin' = rOrigin
               /\ \/ rOrigins' = rOrigins
                  \/ /\ wk[w].pc = "addKnownMOAS"
                     /\ rOrigins' =
                          [rOrigins EXCEPT ![wk[w].update.Prefix] =
                              @ \cup {wk[w].update.OriginASN}]]_vars

\* C4, its case: after a detection the known origin is the learned one, in
\* the local map and in the store, and the MOAS set holds the new origin
DetectedWithoutOverwrite ==
    /\ hijacked = {<<P24, 64501>>}
    /\ cache[P24] = 64500
    /\ rOrigin[P24] = 64500
    /\ rOrigins[P24] = {64501}

\* no worker is inside getKnownOrigin or setKnownOrigin
StoreQuiet ==
    \A w \in Workers :
        wk[w].pc \notin {"getRedis", "fillCache", "setKnownOrigin", "setRedis"}

\* C5, as claimed: when workers have learned origins of one prefix
\* concurrently, none of them emits, and once they are through the local
\* map and the key-value store hold the same known origin.
LearningRaceAgrees ==
    /\ (StoreQuiet /\ redis = "up") =>
          \A p \in Prefixes :
              (cacheTime[p] = "fresh" /\ rOrigin[p] # 0)
                 => cache[p] = rOrigin[p]
    /\ \A w \in Workers : wk[w].pc = "emit" => wk[w].knownOrigin # 0

(***************************************************************************)
(* Properties of Stop.                                                     *)
(***************************************************************************)
\* C7, as claimed: once Stop has closed a client's done channel, the
\* client's run loop is never stuck before it has returned: whatever the
\* network does or does not do, the client's own code has a step to take
\* (the reader is unblocked, the connection gets closed, the loop returns).
StopUnblocksClient ==
    \A c \in DOMAIN cl :
        (Alive /\ cl[c].done /\ cl[c].pc # "exited") => ENABLED ClientStep(c)

(***************************************************************************)
(* Properties of the writer's table.                                       *)
(***************************************************************************)
\* the deduplication key of an event and of a row
EventKey(event) ==
    <<event.CountryCode, event.EventType, event.AffectedASN,
      event.AffectedPrefix>>
RowKey(row) ==
    <<row.country_code, row.event_type, row.affected_asn,
      row.affected_prefix>>

\* the active rows of the table, the keys written so far, and the places
\* in the order of writing that hold an event of key k
ActiveRows == {i \in 1..Len(table) : table[i].is_active}
WrittenKeys == {EventKey(written[i]) : i \in 1..Len(written)}
WrittenAt(k) == {i \in 1..Len(written) : EventKey(written[i]) = k}
First(S) == CHOOSE i \in S : \A j \in S : i <= j
Last(S) == CHOOSE i \in S : \A j \in S : i >= j

\* C11: the table has at most one active row per key after any sequence of
\* events in any batching: every key written has exactly one active row,
\* an event of a key that has an active row adds no row, an event of a new
\* key adds exactly one row, active, with detected_at the event's and, while
\* it is the only event of its key, last_seen_at = detected_at; rows that
\* are not active are left as they were.
OneActiveRowPerKey ==
    /\ \A i, j \in ActiveRows : RowKey(table[i]) = RowKey(table[j]) => i = j
    /\ {RowKey(table[i]) : i \in ActiveRows} = WrittenKeys
    /\ Cardinality(ActiveRows) = Cardinality(WrittenKeys)
    /\ \A i \in 1..Len(table) : ~table[i].is_active => table[i] = ClosedRow
    /\ Len(table) - Cardinality(ActiveRows) <= 1
    /\ \A i \in ActiveRows :
          LET at == WrittenAt(RowKey(table[i]))
          IN  /\ table[i].detected_at = written[First(at)].DetectedAt
              /\ Cardinality(at) = 1
                    => table[i].last_seen_at = table[i].detected_at

\* C11, its case: after three events, two of one key whose earlier row is
\* no longer active and one of another key, the table holds the old row and
\* one active row for each of the two keys
DuplicateKeyOneRow ==
    /\ Len(written) = 3
    /\ Cardinality(WrittenKeys) = 2
    /\ Len(table) = 3
    /\ table[1] = ClosedRow
    /\ Cardinality(ActiveRows) = 2

\* the highest severity among the events of key k written so far
MaxSeverity(k) ==
    CHOOSE s \in {written[i].Severity : i \in WrittenAt(k)} :
        \A i \in WrittenAt(k) :
            severityOrder[s] >= severityOrder[written[i].Severity]

\* C12: the severity of an active row never decreases in the order
\* low < medium < high < critical, and after any sequence of events of its
\* key it is the highest severity among them.
SeverityIsMaximum ==
    /\ [](\A i \in ActiveRows :
             table[i].severity = MaxSeverity(RowKey(table[i])))
    /\ [][\A i \in 1..Len(table) :
             severityOrder[table'[i].severity]
                >= severityOrder[table[i].severity]]_vars

\* C12, its case: a critical event was written before a low one of the same
\* key and the row is still critical
SeverityKeptOverLower ==
    \E i \in ActiveRows : \E a, b \in WrittenAt(RowKey(table[i])) :
        /\ a < b
        /\ written[a].Severity = "critical"
        /\ written[b].Severity = "low"
        /\ table[i].severity = "critical"

\* the largest DetectedAt among the events of key k written so far
LatestDetected(k) ==
    CHOOSE t \in {written[i].DetectedAt : i \in WrittenAt(k)} :
        \A i \in WrittenAt(k) : t >= written[i].DetectedAt

\* C13, as claimed: the row's last_seen_at is the largest detected_at among
\* the events of its key that were written, in whichever order they reached
\* the writer.
LastSeenIsLatestDetected ==
    \A i \in ActiveRows :
        table[i].last_seen_at = LatestDetected(RowKey(table[i]))

\* C13, amended: the row's last_seen_at is the detected_at of the event of
\* its key that was written last, which is the largest of them when the
\* events reach the writer in the order of their detected_at.
LastSeenIsLastWritten ==
    \A i \in ActiveRows :
        LET at == WrittenAt(RowKey(table[i]))
        IN  /\ table[i].last_seen_at = written[Last(at)].DetectedAt
            /\ (\A a, b \in at :
                   a <= b => written[a].DetectedAt <= written[b].DetectedAt)
               => table[i].last_seen_at = LatestDetected(RowKey(table[i]))

\* C13, its case: two events of one key were written, the one detected
\* later first, and the one row carries the earlier instant
LastSeenFollowsArrival ==
    \E i \in ActiveRows :
        LET at == WrittenAt(RowKey(table[i]))
        IN  /\ Cardinality(at) = 2
            /\ written[First(at)].DetectedAt = 2
            /\ written[Last(at)].DetectedAt = 1
            /\ table[i].last_seen_at = 1

(***************************************************************************)
(* Properties of the sink's enrichment.                                    *)
(***************************************************************************)
\* the events the sink has forwarded: queued for the writer, in its batch,
\* or written
Forwarded ==
    {wq[i] : i \in 1..Len(wq)} \cup {batch[i] : i \in 1..Len(batch)}
        \cup {written[i] : i \in 1..Len(written)}

\* C14, as claimed: an event whose affected ASN the resolver does not know
\* and whose details.as_path holds an ASN it knows leaves the sink with the
\* country code of the first such ASN of the path.
PathResolvesCountry ==
    \A e \in Forwarded :
        (Resolve(e.AffectedASN) = "" /\ ResolveFromPath(e.Details.as_path) # "")
           => e.CountryCode = ResolveFromPath(e.Details.as_path)

\* C15: every event the sink forwards has a country code that is not empty
\* and not "GL": the resolver's code when the resolver knows the affected
\* ASN, and "XX" when it knows neither the affected ASN nor an ASN of the
\* path.
CountryCodeNeverEmpty ==
    \A e \in Forwarded :
        /\ e.CountryCode \notin {"", "GL"}
        /\ Resolve(e.AffectedASN) # ""
              => e.CountryCode = Resolve(e.AffectedASN)
        /\ (Resolve(e.AffectedASN) = ""
              /\ ResolveFromPath(e.Details.as_path) = "")
              => e.CountryCode = "XX"

\* C15, its case: the sink has forwarded an event of ASN 13335 as "US" and
\* an event on whose path nothing resolves as "XX"
ResolvedAndUnresolved ==
    /\ \E e \in Forwarded : e.AffectedASN = 13335 /\ e.CountryCode = "US"
    /\ \E e \in Forwarded :
          /\ e.AffectedASN = 64500
          /\ e.Details.as_path = <<64500>>
          /\ e.CountryCode = "XX"

(***************************************************************************)
(* Properties of the stream client.                                        *)
(***************************************************************************)
\* C16, as claimed: the reconnect delay is within [5 s, 300 s] in every
\* state, and the wait that follows the k-th consecutive failed connection
\* is min(5 * 2^(k-1) s, 300 s).
BackoffFollowsFailures ==
    \A c \in DOMAIN cl :
        /\ cl[c].delay >= 5 /\ cl[c].delay <= 300
        /\ (cl[c].pc = "select" /\ cl[c].streak >= 1)
              => cl[c].delay =
                    IF 5 * 2^(cl[c].streak - 1) < 300
                    THEN 5 * 2^(cl[c].streak - 1) ELSE 300

\* C17, as claimed: a connection that ended with a normal close is followed
\* by a wait of the initial 5 s, and a connection that ended with an error
\* leaves the delay as it was.
CleanCloseResetsDelay ==
    /\ [](\A c \in DOMAIN cl :
             (cl[c].pc = "select" /\ cl[c].streak = 0) => cl[c].delay = 5)
    /\ [][\A c \in DOMAIN cl :
             cl'[c].streak = cl[c].streak + 1
                => cl'[c].delay = cl[c].delay]_vars

\* C18: Start on a client that is already running starts no second run
\* loop and changes no counter and no other state of the client; a running
\* client has exactly one run loop, however often Start was called.
StartIsIdempotent ==
    /\ [](\A c \in DOMAIN cl :
             /\ cl[c].loops <= 1
             /\ cl[c].running => cl[c].loops = 1)
    /\ [][\A c \in DOMAIN cl :
             (cl[c].running /\ cl'[c].startCalls = cl[c].startCalls + 1)
                => cl'[c] = [cl[c] EXCEPT !.startCalls = @ + 1]]_vars

\* C18, its case: Start was called again on a client that is connected and
\* has read frames, and the client still has its one run loop
StartedAgainOneLoop ==
    \E c \in DOMAIN cl :
        /\ cl[c].startCalls = 2
        /\ cl[c].loops = 1
        /\ cl[c].running
        /\ cl[c].messagesReceived >= 1

\* the counters Stats reports
Counters(client) ==
    <<client.messagesReceived, client.updatesParsed, client.errors,
      client.reconnects>>

\* C19, as claimed: when a client discards an update because the update
\* queue is full, its counters change in another way than when the update
\* is queued (some counter is bumped for the drop).
DropBumpsCounter ==
    [][\A c \in DOMAIN cl :
          (Pushed(c) /\ ~updatesClosed /\ Len(updates) = BufferSize)
             => Counters(cl'[c]) #
                   <<cl[c].messagesReceived + 1, cl[c].updatesParsed + 1,
                     cl[c].errors, cl[c].reconnects>>]_vars

\* C20, as claimed: a text frame that does not parse queues no update, is
\* counted in the client's error counter and leaves the client reading on
\* the same connection.
MalformedFrameCounted ==
    [][\A c \in DOMAIN cl :
          ReadMessage(c, [kind |-> "malformed", update |-> NoUpdate])
             => /\ updates' = updates
                /\ cl'[c].conn = "open" /\ cl'[c].pc = "read"
                /\ cl'[c].errors = cl[c].errors + 1]_vars

(***************************************************************************)
(* The parser.                                                             *)
(***************************************************************************)
\* the frames ParseMessage was given, each with what it returned
ParsedEntries ==
    UNION {{cl[c].parsed[i] : i \in DOMAIN cl[c].parsed} : c \in DOMAIN cl}

\* a frame of type ris_message whose fields all parse
FieldsParse(frame) ==
    /\ frame.valid
    /\ frame.type = "ris_message"
    /\ frame.path.t \in {"absent", "array"}

\* the announcements of a frame that list at least one prefix
Listing(frame) ==
    {i \in DOMAIN frame.announcements : frame.announcements[i] # <<>>}

Least(indices) == CHOOSE i \in indices : \A j \in indices : i <= j

\* C21, as claimed: a ris_message frame whose announcements are non-empty
\* yields an announcement update for the first prefix of the first
\* announcement.
FirstAnnouncementWins ==
    \A e \in ParsedEntries :
        (FieldsParse(e.frame) /\ e.frame.announcements # <<>>)
            => /\ e.result.update # NoUpdate
               /\ e.result.update.Announcement
               /\ e.frame.announcements[1] # <<>>
               /\ e.result.update.Prefix = e.frame.announcements[1][1]

\* C21, amended: a ris_message frame whose fields parse yields at most one
\* update and no error: an announcement update for the first prefix of the
\* first announcement that lists a prefix, if some announcement lists one;
\* otherwise, if withdrawals is non-empty, a withdrawal update for its
\* first prefix with an empty path, origin 0 and no communities; otherwise
\* nothing.  A frame of any other type yields nothing and no error.
OneUpdatePerFrame ==
    \A e \in ParsedEntries :
        /\ (e.frame.valid /\ e.frame.type # "ris_message")
              => (~e.result.err /\ e.result.update = NoUpdate)
        /\ FieldsParse(e.frame) =>
              /\ ~e.result.err
              /\ Listing(e.frame) # {} =>
                    /\ e.result.update # NoUpdate
                    /\ e.result.update.Announcement
                    /\ e.result.update.Prefix =
                          e.frame.announcements[Least(Listing(e.frame))][1]
              /\ (Listing(e.frame) = {} /\ e.frame.withdrawals # <<>>) =>
                    /\ e.result.update # NoUpdate
                    /\ ~e.result.update.Announcement
                    /\ e.result.update.Prefix = e.frame.withdrawals[1]
                    /\ e.result.update.ASPath = <<>>
                    /\ e.result.update.OriginASN = 0
                    /\ e.result.update.Communities = <<>>
              /\ (Listing(e.frame) = {} /\ e.frame.withdrawals = <<>>) =>
                    e.result.update = NoUpdate

\* C21 witness: a frame whose first announcement lists no prefix and whose
\* second lists one was parsed into an announcement of that prefix, and a
\* frame without a listed prefix into a withdrawal
LaterAnnouncementParsed ==
    /\ \E e \in ParsedEntries :
          /\ e.frame.announcements = <<<<>>, <<P8>>>>
          /\ e.frame.withdrawals # <<>>
          /\ e.result.update.Announcement
          /\ e.result.update.Prefix = P8
    /\ \E e \in ParsedEntries :
          /\ e.frame.announcements = <<<<>>>>
          /\ e.result.update # NoUpdate
          /\ ~e.result.update.Announcement

\* C22, as claimed: a frame whose peer_asn is a JSON number and a frame
\* that differs from it only in giving the same value as a decimal string
\* parse to equal results, whatever the value.
NumberAndStringAgree ==
    \A e1 \in ParsedEntries : \A e2 \in ParsedEntries :
        (/\ e1.frame.peer_asn.t = "number"
         /\ e2.frame.peer_asn.t = "string"
         /\ e1.frame.peer_asn.v = e2.frame.peer_asn.v
         /\ e2.frame = [e1.frame EXCEPT !.peer_asn = e2.frame.peer_asn])
            => e1.result = e2.result

\* the ASNs of the first n elements of a wire path, left to right
RECURSIVE WireASNs(_, _)
WireASNs(elems, n) ==
    IF n = 0 THEN <<>> ELSE WireASNs(elems, n - 1) \o elems[n].v

\* C23: the as_path of an update parsed from an announcement whose path is
\* an array of numbers and inner arrays of numbers is the left-to-right
\* concatenation of the ASNs of the wire path, and origin_asn is its last
\* element, or 0 when it is empty (or when the frame has no path).
PathFlattenedInOrder ==
    \A e \in ParsedEntries :
        (FieldsParse(e.frame) /\ e.result.update # NoUpdate
            /\ e.result.update.Announcement)
            => /\ (/\ e.frame.path.t = "array"
                   /\ \A i \in DOMAIN e.frame.path.v :
                         e.frame.path.v[i].t \in {"number", "array"})
                      => e.result.update.ASPath =
                            WireASNs(e.frame.path.v, Len(e.frame.path.v))
               /\ e.frame.path.t = "absent" => e.result.update.ASPath = <<>>
               /\ e.result.update.OriginASN =
                     (IF e.result.update.ASPath = <<>> THEN 0
                      ELSE e.result.update.ASPath[
                               Len(e.result.update.ASPath)])

\* C23 witness: the path [[174],[3356,7018],13335] was parsed into
\* [174,3356,7018,13335] with origin 13335, and an empty path into origin 0
NestedPathParsed ==
    /\ \E e \in ParsedEntries :
          /\ e.frame.path =
                JValue("array", <<JValue("array", <<174>>),
                                  JValue("array", <<3356, 7018>>),
                                  JASN(13335)>>)
          /\ e.result.update.ASPath = <<174, 3356, 7018, 13335>>
          /\ e.result.update.OriginASN = 13335
    /\ \E e \in ParsedEntries :
          /\ e.frame.path = JValue("array", <<>>)
          /\ e.result.update.Announcement
          /\ e.result.update.OriginASN = 0

(***************************************************************************)
(* The detectors, one update at a time.                                    *)
(***************************************************************************)
\* the events channel takes one more event
Room == ~eventsClosed /\ Len(events) < EventsCap

\* exactly one event was appended to the events channel
OneEventSent ==
    /\ Len(events') = Len(events) + 1
    /\ SubSeq(events', 1, Len(events)) = events

\* the event appended last
Sent == events'[Len(events')]

\* worker w runs the detector at pc on its update and moves on to next
Detects(w, pc, next) == wk[w].pc = pc /\ wk'[w].pc = next

InKnownSet(community) == community \in KnownBlackholeCommunities

\* C24: the blackhole detector emits nothing for an update that is no
\* announcement or has no community in the known blackhole set; for an
\* announcement with such a community it emits, when the events channel has
\* room, exactly one event with the update's prefix and origin, category
\* defense and the update's communities that are in the known set.
BlackholeIffKnownCommunity ==
    [][\A w \in Workers :
          Detects(w, "blackhole", "hijack") =>
             LET u == wk[w].update
                 known == SelectSeq(u.Communities, InKnownSet)
             IN  IF u.Announcement /\ known # <<>> /\ Room
                 THEN /\ OneEventSent
                      /\ Sent.EventType = "blackhole"
                      /\ Sent.AffectedPrefix = u.Prefix
                      /\ Sent.AffectedASN = u.OriginASN
                      /\ Sent.EventCategory = "defense"
                      /\ Sent.Details.blackhole_communities = known
                 ELSE events' = events]_vars

\* C24 witness: a blackhole event for the announcement that carries one
\* unknown and two known communities is on the events channel
BlackholeEventSent ==
    \E i \in DOMAIN events :
        /\ events[i].EventType = "blackhole"
        /\ events[i].Details.blackhole_communities =
              <<"3356:9999", "65535:666">>
        /\ ran["blackhole"] >= 1

\* the length written in a prefix
LengthOf ==
    (P8 :> 8) @@ (Sized.p15 :> 15) @@ (Sized.p16 :> 16)
        @@ (Sized.p23 :> 23) @@ (P24 :> 24) @@ (Sized.p31 :> 31)
        @@ (Sized.p32 :> 32) @@ (Sized.p128 :> 128)

\* C25: the severity and the confidence (in percent) of a blackhole event
\* follow the length p of the update's prefix: p = 32 or p = 128 gives
\* medium / 95, 24 <= p < 32 medium / 85, 16 <= p < 24 medium / 60, and
\* p < 16 high / 60.
BlackholeSeverityByLength ==
    [][\A w \in Workers :
          (/\ Detects(w, "blackhole", "hijack")
           /\ events' # events
           /\ wk[w].update.Prefix \in DOMAIN LengthOf) =>
             LET p == LengthOf[wk[w].update.Prefix]
                 severity == Sent.Severity
                 confidence == Sent.Details.confidence
             IN  /\ p \in {32, 128} => (severity = "medium" /\ confidence = 95)
                 /\ (24 <= p /\ p < 32) =>
                       (severity = "medium" /\ confidence = 85)
                 /\ (16 <= p /\ p < 24) =>
                       (severity = "medium" /\ confidence = 60)
                 /\ p < 16 => (severity = "high" /\ confidence = 60)]_vars

\* C25 witness: a blackhole event for a /16 is on the events channel, medium
\* and with confidence 60
BlackholeSlash16Sent ==
    \E i \in DOMAIN events :
        /\ events[i].EventType = "blackhole"
        /\ events[i].AffectedPrefix = Sized.p16
        /\ events[i].Severity = "medium"
        /\ events[i].Details.confidence = 60

Contains(seq, x) == \E i \in DOMAIN seq : seq[i] = x

LeakWindows(asPath) ==
    {i \in 1..(Len(asPath) - 2) :
        /\ asPath[i] \in Tier1ASNs
        /\ asPath[i + 2] \in Tier1ASNs
        /\ asPath[i + 1] \notin (Tier1ASNs \cup ScrubbingASNs)}

\* C29, as claimed: the leak detector emits nothing for an update that is
\* no announcement or whose path has no such window; for an announcement
\* with such a window (a, b, c), whatever b is, it emits, when the events
\* channel has room, exactly one event, for the first such window, with
\* affected ASN b, upstream a, downstream c, severity high and category
\* misconfiguration.
LeakIffWindow ==
    [][\A w \in Workers :
          Detects(w, "leak", "range") =>
             LET u == wk[w].update
                 windows == LeakWindows(u.ASPath)
                 i == Least(windows)
             IN  IF u.Announcement /\ windows # {} /\ Room
                 THEN /\ OneEventSent
                      /\ Sent.EventType = "leak"
                      /\ Sent.AffectedASN = u.ASPath[i + 1]
                      /\ Sent.Details.upstream_tier1 = u.ASPath[i]
                      /\ Sent.Details.downstream_tier1 = u.ASPath[i + 2]
                      /\ Sent.Severity = "high"
                      /\ Sent.EventCategory = "misconfiguration"
                 ELSE events' = events]_vars

(***************************************************************************)
(* The hijack detector and the known origin.                               *)
(***************************************************************************)
\* worker w takes a step of the hijack detector in which the known origin
\* of its announcement's prefix is found equal to the announcement's
\* origin: in the local cache, in the store, or while the value read from
\* the store is filled into the local cache
FindsSameOrigin(w) ==
    LET u == wk[w].update
    IN  /\ wk'[w] # wk[w]
        /\ u.Announcement /\ u.OriginASN # 0
        /\ \A i \in DOMAIN u.ASPath : u.ASPath[i] \notin ScrubbingASNs
        /\ \/ /\ wk[w].pc = "hijack"
              /\ cacheTime[u.Prefix] = "fresh"
              /\ cache[u.Prefix] = u.OriginASN
           \/ /\ wk[w].pc = "getRedis"
              /\ redis = "up"
              /\ rOrigin[u.Prefix] = u.OriginASN
           \/ /\ wk[w].pc = "fillCache"
              /\ wk[w].knownOrigin = u.OriginASN

\* what a lookup of the known origin of a prefix answers: the local entry
\* while it is fresh, else the stored one
KnownOrigin(prefix) ==
    IF cache[prefix] # 0 /\ cacheTime[prefix] = "fresh" THEN cache[prefix]
    ELSE IF redis = "up" THEN rOrigin[prefix] ELSE 0

\* C27, as claimed: when the hijack detector finds the known origin of an
\* announcement's prefix equal to the announcement's origin, no event is
\* emitted and neither the known origin nor the MOAS set of any prefix
\* changes.
SameOriginChangesNothing ==
    [][\A w \in Workers :
          FindsSameOrigin(w) =>
             /\ events' = events
             /\ rOrigins' = rOrigins
             /\ \A p \in Prefixes : KnownOrigin(p)' = KnownOrigin(p)]_vars

\* C27, amended: when the hijack detector finds the known origin of an
\* announcement's prefix equal to the announcement's origin it returns: no
\* event is emitted, the stored known origin and the MOAS set of every
\* prefix stay as they are, and the local cache changes at most by the
\* read-through copy of that same origin for that prefix.
SameOriginIsNoOp ==
    [][\A w \in Workers :
          FindsSameOrigin(w) =>
             /\ events' = events
             /\ hijacked' = hijacked
             /\ rOrigin' = rOrigin
             /\ rOrigins' = rOrigins
             /\ \A p \in Prefixes :
                   cache'[p] # cache[p] =>
                      (p = wk[w].update.Prefix
                          /\ cache'[p] = wk[w].update.OriginASN)
             /\ wk'[w].pc \in {"fillCache", "leak"}
             /\ wk'[w].pc = "fillCache" => wk[w].pc = "getRedis"]_vars

\* C27 witness: a worker has found the known origin equal to its
\* announcement's and has left the hijack detector, after the origin was
\* learned from an earlier announcement
SameOriginPassed ==
    \E w \in Workers :
        /\ wk[w].pc = "leak"
        /\ wk[w].update.Announcement
        /\ wk[w].knownOrigin # 0
        /\ wk[w].knownOrigin = wk[w].update.OriginASN
        /\ ran["hijack"] >= 2

\* C28: for an announcement with a scrubbing ASN on its path the hijack
\* detector returns at once: no event is emitted, no origin is learned, and
\* the known origin (local and stored) and the MOAS set of every prefix
\* stay as they are.
ScrubbingPathIsSkipped ==
    [][\A w \in Workers :
          (/\ wk[w].pc = "hijack" /\ wk'[w] # wk[w]
           /\ wk[w].update.Announcement
           /\ \E i \in DOMAIN wk[w].update.ASPath :
                 wk[w].update.ASPath[i] \in ScrubbingASNs) =>
             /\ wk'[w].pc = "leak"
             /\ events' = events
             /\ hijacked' = hijacked
             /\ cache' = cache /\ cacheTime' = cacheTime
             /\ rOrigin' = rOrigin /\ rOrigins' = rOrigins]_vars

\* C28 witness: the announcement through a scrubbing center, whose origin
\* differs from the known origin of its prefix, has passed the hijack
\* detector and no hijack event was sent
ScrubbedDivergentPassed ==
    \E w \in Workers :
        /\ wk[w].pc = "leak"
        /\ wk[w].update.ASPath = <<13335, 64501>>
        /\ cache[P24] = 64500 /\ cacheTime[P24] = "fresh"
        /\ hijacked = {}

(***************************************************************************)
(* The writer's batches.                                                   *)
(***************************************************************************)
\* the events the step writes: what the step appends to the written events
WrittenByStep == SubSeq(written', Len(written) + 1, Len(written'))

\* C30: the writer's batch never reaches the batch size between two steps
\* of its loop; every batch it writes holds at least one and at most
\* BatchCap events and is the whole batch; the event that fills the batch
\* is written with it at once; and whenever the batch is non-empty the tick
\* may come and writes it.
BatchesBounded ==
    /\ [](Len(batch) < BatchCap)
    /\ [](wpc = "select" /\ batch # <<>> /\ Alive => ENABLED WriterTick)
    /\ [][/\ batchesWritten' \in {batchesWritten, batchesWritten + 1}
          /\ Len(written') >= Len(written)
          /\ SubSeq(written', 1, Len(written)) = written
          /\ batch' = <<>> \/ WrittenByStep = <<>>
          /\ batchesWritten' = batchesWritten => WrittenByStep = <<>>
          /\ batchesWritten' # batchesWritten =>
                /\ Len(WrittenByStep) >= 1
                /\ Len(WrittenByStep) <= BatchCap
                /\ batch' = <<>>
                /\ \/ WrittenByStep = batch /\ wq' = wq
                   \/ /\ wq # <<>>
                      /\ WrittenByStep = Append(batch, Head(wq))
                      /\ Len(WrittenByStep) = BatchCap
          /\ (wq' # wq /\ wq # <<>> /\ wq' = Tail(wq)
                 /\ Len(batch) = BatchCap - 1) =>
                (batchesWritten' = batchesWritten + 1 /\ batch' = <<>>)
         ]_vars

\* C30 witness: the writer has written a full batch and, at a tick, a batch
\* that was not full
FullAndPartialBatch ==
    /\ batchesWritten = 2
    /\ Len(written) = BatchCap + 1
    /\ batch = <<>>

(***************************************************************************)
(* The writer's queue.                                                     *)
(***************************************************************************)
\* Write is called in this step: by the sink for the event it holds, or on
\* the writer alone
WriteCalled ==
    \/ sink.pc = "handle" /\ sink'.pc = "range" /\ dbWriter
    \/ wAccepted' + eventsDropped' # wAccepted + eventsDropped

\* C31, as claimed: a call of Write returns at once: on a queue that holds
\* WriterQueueCap events the event is dropped, the dropped-events counter
\* grows by one and the queue is left as it was; otherwise the event is
\* appended and the counter is unchanged.
WriteNeverBlocks ==
    [][WriteCalled =>
          /\ panic' = panic
          /\ IF Len(wq) >= WriterQueueCap
             THEN /\ wq' = wq
                  /\ eventsDropped' = eventsDropped + 1
             ELSE /\ Len(wq') = Len(wq) + 1
                  /\ SubSeq(wq', 1, Len(wq)) = wq
                  /\ eventsDropped' = eventsDropped]_vars

\* worker w looks up the known origin of an announcement it does not skip
LooksUp(w) ==
    /\ wk[w].pc = "hijack"
    /\ StepOf(w)
    /\ wk[w].update.Announcement
    /\ wk[w].update.OriginASN # 0
    /\ ~HasScrubbingCenter(wk[w].update.ASPath)

\* worker w's lookup has answered "no known origin"
LearnsNext(w) == wk'[w].knownOrigin = 0 /\ wk'[w].pc = "setKnownOrigin"

HijackPlaces ==
    {"hijack", "getRedis", "fillCache", "setKnownOrigin", "setRedis",
     "isKnownMOAS", "emit", "addKnownMOAS"}

\* C33: a failing store never stops or fails Process: no call raises, every
\* place of Process has a next step, a failed read answers "no known origin"
\* or "not in the MOAS set", a failed write changes nothing in the store,
\* and the learning write still puts the origin into the local map.
StoreFailureIsSwallowed ==
    /\ [](panic = "none")
    /\ [](\A w \in Workers :
             wk[w].pc \in HijackPlaces => ENABLED WorkerRunning(w))
    /\ [][\A w \in Workers : (StepOf(w) /\ redis = "down") =>
            /\ wk[w].pc = "getRedis" => LearnsNext(w)
            /\ wk[w].pc = "setKnownOrigin" =>
                  /\ cache'[wk[w].update.Prefix] = wk[w].update.OriginASN
                  /\ cacheTime'[wk[w].update.Prefix] = "fresh"
                  /\ wk'[w].pc = "setRedis"
            /\ wk[w].pc = "isKnownMOAS" => wk'[w].pc = "emit"
            /\ wk[w].pc \in {"setRedis", "addKnownMOAS"} =>
                  wk'[w].pc = "leak"
            /\ wk[w].pc \in HijackPlaces =>
                  /\ rOrigin' = rOrigin
                  /\ rOrigins' = rOrigins
                  /\ wk'[w].knownOrigin \in
                        {0, wk[w].knownOrigin, cache[wk[w].update.Prefix]}]_vars

\* with the store down a worker has learned an origin into the local map
\* that the store does not hold, and a hijack of a prefix whose origin is in
\* the store's MOAS set has been reported
LearnedWhileStoreDown ==
    /\ redis = "down"
    /\ \E p \in Prefixes : cache[p] # 0 /\ rOrigin[p] = 0
    /\ \E h \in hijacked : h[2] \in rOrigins[h[1]]

\* C34, as claimed: every country code the file resolver holds, while and
\* after it loads a file, has two characters, both upper-case letters.
CodesAreTwoUpperLetters ==
    \A e \in resolver.mapping :
        /\ Len(e[2]) = 2
        /\ \A i \in 1..Len(e[2]) : e[2][i] \in {"U", "S", "A"}

\* C35, as claimed: in every interleaving of the shutdown the sink never
\* calls Write once the writer loop has closed the writer's queue.
NoWriteOnClosedQueue ==
    [][~(wqClosed /\ dbWriter /\ sink.pc = "handle" /\ sink' # sink)]_vars

\* worker w's hijack event has gone onto the event queue and w has not yet
\* added the origin to the MOAS set
SentNotYetAdded(w) == wk[w].pc = "addKnownMOAS" /\ wk[w].sent

\* C36, as claimed: with a store, at most one hijack event for a prefix
\* and an origin goes onto the event queue for one entry of the MOAS set;
\* in particular no second one does while the worker that sent the first is
\* about to add the origin to the set.
OneHijackPerMOASEntry ==
    [][\A w \in Workers :
          (wk[w].pc = "emit" /\ StepOf(w) /\ wk'[w].sent /\ redis = "up") =>
             \A v \in Workers \ {w} :
                ~(/\ SentNotYetAdded(v)
                  /\ wk[v].update.Prefix = wk[w].update.Prefix
                  /\ wk[v].update.OriginASN = wk[w].update.OriginASN)]_vars

\* C37, as claimed: whenever a worker adds an origin to a prefix's MOAS set,
\* a hijack event for that prefix and origin has gone onto the event queue
\* before.
AddedToMOASOnlyIfSent ==
    [][\A w \in Workers :
          (wk[w].pc = "addKnownMOAS" /\ StepOf(w) /\ redis = "up") =>
             <<wk[w].update.Prefix, wk[w].update.OriginASN>> \in hijacked]_vars

\* C38, as claimed: no sequence of Start and Stop calls on a client ends in
\* a runtime failure, a second Stop after a restart included.
StartStopNeverFails == panic = "none"

\* the places of a client outside the streaming loop: not started, at the
\* head of runLoop, dialing, subscribing, in the back-off select, returned
OutsideStream == {"new", "loop", "dial", "subscribe", "select", "exited"}

\* C39, as claimed: a client's connected flag is set only while its
\* connection is open and subscribed, and it is clear wherever the client
\* is outside the streaming loop.
ConnectedOnlyWhileOpen ==
    \A c \in DOMAIN cl :
        /\ cl[c].connected => cl[c].conn = "open"
        /\ cl[c].pc \in OutsideStream => ~cl[c].connected

\* C39, amended: the flag is set exactly while the client is inside the
\* streaming loop of a connection it has subscribed on; that connection is
\* open, or the ping task has closed it after the shutdown signal and the
\* read that ends the loop has not yet returned.
ConnectedOnlyInStream ==
    \A c \in DOMAIN cl :
        /\ cl[c].connected <=> cl[c].pc \notin OutsideStream
        /\ cl[c].connected =>
              \/ cl[c].conn = "open"
              \/ cl[c].conn = "closed" /\ cl[c].done

\* a client that has streamed is back in the back-off select, flag clear,
\* after a failure of its connection
DisconnectedAfterStreaming ==
    \E c \in DOMAIN cl :
        /\ cl[c].pc = "select"
        /\ cl[c].messagesReceived > 0
        /\ cl[c].errors > 0
        /\ ~cl[c].connected

\* the writer loop's step has called writeBatch: it leaves the batch empty
\* after holding events or taking one from the queue
CalledWriteBatch ==
    /\ wpc = "select"
    /\ batch' = <<>>
    /\ batch # <<>> \/ Len(wq') < Len(wq)

\* C40: a batch whose transaction fails to begin or to commit changes no
\* row of the table and neither counter, its events are gone from the
\* batch without going back to the queue, and the writer loop is at its
\* select again, alive, where it takes the next event.
FailedBatchChangesNothing ==
    [][(CalledWriteBatch /\ written' = written) =>
          /\ table' = table
          /\ eventsWritten' = eventsWritten
          /\ batchesWritten' = batchesWritten
          /\ wq' = wq \/ (wq # <<>> /\ wq' = Tail(wq))
          /\ wpc' = "select"
          /\ wqClosed' = wqClosed
          /\ panic' = panic]_vars

\* a batch has been discarded (accepted events are in no queue, batch or
\* committed batch) and another batch has been written
DiscardedAndWritten ==
    /\ Len(written) + Len(batch) + Len(wq) < wAccepted
    /\ batchesWritten >= 1
    /\ eventsWritten = Len(written)
    /\ table # <<>>

================================================================================
